---- MODULE Spec2Model ----
(***************************************************************************)
(* Briefing synthesis pipeline of backend/app: the request handlers of     *)
(* app/main.py (generate_personal_briefing, generate_podcast_from_urls,    *)
(* generate_podcast, generate_video, progress_sse), the URL resolution of  *)
(* app/services, the speech synthesis and the chunker of tts_generator.py, *)
(* and the slides of video_generation/builder.py.                          *)
(*                                                                         *)
(* A text (URL, narration) is a sequence of one-character strings where    *)
(* its characters matter (the cache key), and an opaque name elsewhere.    *)
(* Python's None is the string "None".                                     *)
(***************************************************************************)
EXTENDS Integers, Sequences, FiniteSets, TLC

\* ------------------------------------------------------------------ bounds
\* Longest URL list of the cache-key inputs.
MaxKeyLen == 2

\* Longest entry of a URL list, in characters, its padding included.
MaxUrlLen == 2

\* Chunks of the long narration text.
MaxChunks == 3

\* Slides of a video.
MaxSegs == 2

\* Longest text given to _split_into_chunks, and the largest max_chars.
MaxTextLen == 6

MaxChunkChars == 4

\* Longest segment list given to the slide merge and the duration allocation,
\* and the longest audio, in half seconds.
MaxSlideSegs == 4

MaxHalfSeconds == 64

\* A stream whose token has no entry sends an event on every poll: it does so
\* while it has sent fewer events than this.
MaxEmits == 2

\* ------------------------------------------------------------------ texts
Chars == <<" ", "a", "y">>

CharCode(c) == CHOOSE i \in 1..Len(Chars) : Chars[i] = c

IsSpace(c) == c \in {" ", "\n"}

RECURSIVE LStrip(_)
LStrip(s) == IF s # <<>> /\ IsSpace(Head(s)) THEN LStrip(Tail(s)) ELSE s

RECURSIVE RStrip(_)
RStrip(s) ==
    IF s # <<>> /\ IsSpace(s[Len(s)]) THEN RStrip(SubSeq(s, 1, Len(s) - 1)) ELSE s

\* str.strip()
Strip(s) == RStrip(LStrip(s))

\* Python's str "<" : lexicographic by code point, a proper prefix first.
RECURSIVE StrLess(_, _)
StrLess(a, b) ==
    IF b = <<>> THEN FALSE
    ELSE IF a = <<>> THEN TRUE
    ELSE IF Head(a) # Head(b) THEN CharCode(Head(a)) < CharCode(Head(b))
    ELSE StrLess(Tail(a), Tail(b))

\* Insert x into the ascending list l, after the entries equal to it.
RECURSIVE InsertSorted(_, _)
InsertSorted(x, l) ==
    IF l = <<>> THEN <<x>>
    ELSE IF StrLess(x, Head(l)) THEN <<x>> \o l
    ELSE <<Head(l)>> \o InsertSorted(x, Tail(l))

\* sorted(...)
RECURSIVE Sorted(_)
Sorted(l) == IF l = <<>> THEN <<>> ELSE InsertSorted(l[Len(l)], Sorted(SubSeq(l, 1, Len(l) - 1)))

\* [u.strip() for u in urls if (u and u.strip())]
RECURSIVE UsableUrls(_)
UsableUrls(l) ==
    IF l = <<>> THEN <<>>
    ELSE IF Strip(Head(l)) = <<>> THEN UsableUrls(Tail(l))
    ELSE <<Strip(Head(l))>> \o UsableUrls(Tail(l))

\* json.dumps of a list of strings and sha256(...).hexdigest(): injective
\* encodings of the list (the hash up to collisions); the encoded value stands
\* for its encoding.
JsonDumps(l) == [json |-> l]

Sha256Hex(j) == [sha256 |-> j]

\* _urls_cache_key
WithoutStripKey(urls) == [tag |-> "urls", digest |-> Sha256Hex(JsonDumps(Sorted(urls)))]

WithoutSortKey(urls) == [tag |-> "urls", digest |-> Sha256Hex(JsonDumps(UsableUrls(urls)))]

UrlsCacheKey(urls) == [tag |-> "urls", digest |-> Sha256Hex(JsonDumps(Sorted(UsableUrls(urls))))]

\* cache_key = "personal" (a key has one shape: the digest is unused here)
PersonalKey == [tag |-> "personal", digest |-> Sha256Hex(JsonDumps(<<>>))]

\* No cache key computed (the request was rejected before line 1594).
NoKey == [tag |-> "none", digest |-> Sha256Hex(JsonDumps(<<>>))]

\* json.loads
JsonLoads(j) == j.json

\* ---------------------------------------------------------------- chunker
\* Characters of a narration text: a letter, a full stop, a space, a newline.
TextChars == {"a", ".", " ", "\n"}

\* for sep in ("\n\n", "\n", ". ", "! ", "? ", "; ", ", ", " ")
Separators ==
    << <<"\n", "\n">>, <<"\n">>, <<".", " ">>, <<"!", " ">>, <<"?", " ">>, <<";", " ">>,
       <<",", " ">>, <<" ">> >>

\* block.rfind(sep): the highest index (from 0) where sep starts, or -1
RFind(block, sep) ==
    LET at == {i \in 0..(Len(block) - Len(sep)) : SubSeq(block, i + 1, i + Len(sep)) = sep}
    IN  IF at = {} THEN -1 ELSE CHOOSE i \in at : \A j \in at : j <= i

\* The loop over the separators: the first one found past the midpoint gives
\* break_at = idx + len(sep); -1 when there is none
RECURSIVE BreakFrom(_, _, _)
BreakFrom(block, maxChars, k) ==
    IF k > Len(Separators) THEN -1
    ELSE IF RFind(block, Separators[k]) > maxChars \div 2
         THEN RFind(block, Separators[k]) + Len(Separators[k])
         ELSE BreakFrom(block, maxChars, k + 1)

\* block = rest[: max_chars + 1]; break_at, or max_chars if break_at <= 0
WindowBreak(rest, maxChars) == IF Len(rest) < maxChars + 1 THEN Len(rest) ELSE maxChars + 1

BreakAt(rest, maxChars) ==
    LET block == SubSeq(rest, 1, IF Len(rest) < maxChars + 1 THEN Len(rest) ELSE maxChars + 1)
        found == BreakFrom(block, maxChars, 1)
    IN  IF found <= 0 THEN maxChars ELSE found

\* rest = rest[break_at:].lstrip()
RemainderSkipping(rest, b) == LStrip(SubSeq(rest, b + 2, Len(rest)))

Remainder(rest, b) == LStrip(SubSeq(rest, b + 1, Len(rest)))

\* The while loop of _split_into_chunks
RECURSIVE SplitRest(_, _)
SplitRest(rest, maxChars) ==
    IF rest = <<>> THEN <<>>
    ELSE IF Len(rest) <= maxChars THEN <<Strip(rest)>>
    ELSE LET b == BreakAt(rest, maxChars)
             chunk == Strip(SubSeq(rest, 1, b))
         IN  (IF chunk # <<>> THEN <<chunk>> ELSE <<>>) \o SplitRest(Remainder(rest, b), maxChars)

\* _split_into_chunks(text, max_chars)
SplitIntoChunks(text, maxChars) ==
    IF Strip(text) = <<>> THEN <<>>
    ELSE IF Len(Strip(text)) <= maxChars THEN <<Strip(text)>>
    ELSE SplitRest(Strip(text), maxChars)

\* ------------------------------------------------------------ the universe
Runs == {"r1", "r2"}

Users == {"u1", "u2"}

Streams == {"s1", "s2"}

UrlA == <<"a">>

UrlY == <<"y">>

PadA == <<" ", "a">>

Blank == <<" ">>

\* Request bodies of POST /podcast/generate-from-urls.
UrlInputs == {<<>>, <<Blank>>, <<UrlA>>, <<PadA>>, <<UrlA, UrlY>>}

\* Results of _get_briefing_urls: trimmed, non-blank, distinct URLs.
GatheredInputs == {<<>>, <<UrlA>>}

\* What an extractor returns for a page and what the summarization provider
\* answers ("" is an empty or whitespace-only answer).
Contents == {"c1", "c2"}

ShortOutputs == {"T1", "T2"}

AnyOutputs == {"T1", "TM", "TN", ""}
\* body.text of POST /podcast/generate, body.summary of POST /video/generate
ScriptInputs == {"", "T1", "TM", "TN"}

TtsErrors == {"Gemini TTS returned no audio", "TTS API error"}

NoUrlsText == "No URLs provided."

NoSummaryText == "No summary generated."

PlaceholderBody == "(Content could not be extracted or URL not supported.)"

\* The X-Progress-Token header of a request: none, or a token the client made
\* for this request.
AnyToken(r) == {"None", r}

\* _is_youtube_url: the host name is in the URL ("y" stands for it)
IsYoutubeUrl(u) == \E i \in 1..Len(Strip(u)) : Strip(u)[i] = "y"

\* len(_split_into_chunks(text, TTS_CHUNK_MAX_CHARS)): "TM" is a script of two
\* chunks, "TN" one of MaxChunks chunks, any other text fits one chunk
NChunks(text) == IF text = "TN" THEN MaxChunks ELSE IF text = "TM" THEN 2 ELSE 1

VARIABLES
    geminiKey,   \* os.getenv("GEMINI_API_KEY") is set
    pc,          \* where each request is
    kind,        \* "personal" | "urls" | "podcast" | "video"
    user,        \* user_id
    urls,        \* body.urls, or the URLs gathered for the personal briefing
    token,       \* progress_token
    ckey,        \* cache_key
    idx,         \* loop index: URL, chunk or slide being worked on
    items,       \* item_contents
    fresh,       \* get_or_extract_summary: result (what the extractor returned) and existing
    answer,      \* response.text of the summarization provider
    summary,     \* the narration text
    dur,         \* duration_seconds: the audio it was measured on
    calls,       \* provider calls the request made
    err,         \* the error the request ended with
    served,      \* the cache record a cache hit returned
    cachedAudio, \* generate_video: cached_audio_path
    nseg,        \* build_briefing_video: len(segments) after the merge
    video,       \* build_briefing_video: tmp_dir, the frame files in it, frame_paths
    store,       \* _progress_store
    cacheRows,   \* table cached_briefing_audio
    files,       \* audio files on disk: path -> the text they speak
    extracted,   \* table extracted_summaries
    lastUpsert,  \* per (user, key): what the last upsert wrote
    sources,     \* table sources: the URLs each user follows
    spc, stok, lastProgress, lastEvent, emits,   \* progress_sse streams
    kA, kB,      \* two URL lists given to _urls_cache_key
    cText, cMax, \* text and max_chars given to _split_into_chunks
    sSegs, sDur, \* segments and total_duration of the slides of a video
    synth        \* one call of text_to_audio: where it is, its calls, all_frames, the file

runVars == <<pc, kind, user, urls, token, ckey, idx, items, fresh, answer, summary, dur, calls, err,
             served, cachedAudio, nseg, video>>

dbVars == <<cacheRows, files, extracted, lastUpsert, sources>>

streamVars == <<spc, stok, lastProgress, lastEvent, emits>>

keyVars == <<kA, kB>>

pureVars == <<cText, cMax, sSegs, sDur, synth>>

vars == <<geminiKey, runVars, store, dbVars, streamVars, keyVars, pureVars>>

NoCalls == [extract |-> 0, summarize |-> 0, tts |-> 0]

NoRow == [id |-> 0, user |-> "None", key |-> NoKey, path |-> [dir |-> "None", name |-> NoKey],
          dur |-> "None", transcript |-> "None"]

NoPath == [dir |-> "None", name |-> NoKey]

NoFresh == [result |-> "None", existing |-> FALSE]

NoEvent == [progress |-> -1, done |-> FALSE, error |-> "None"]

\* build_briefing_video was not called: no tmp_dir, no frame file, frame_paths
\* empty, no MP4 written, no slide text, no audio track
NoVideo ==
    [dir |-> FALSE, onDisk |-> {}, frames |-> <<>>, mp4 |-> FALSE, slideText |-> "None",
     narrated |-> "None"]

InitRuns ==
    /\ pc = [r \in Runs |-> "idle"]
    /\ kind = [r \in Runs |-> "None"]
    /\ user = [r \in Runs |-> "None"]
    /\ urls = [r \in Runs |-> <<>>]
    /\ token = [r \in Runs |-> "None"]
    /\ ckey = [r \in Runs |-> NoKey]
    /\ idx = [r \in Runs |-> 0]
    /\ items = [r \in Runs |-> <<>>]
    /\ fresh = [r \in Runs |-> NoFresh]
    /\ summary = [r \in Runs |-> "None"]
    /\ dur = [r \in Runs |-> "None"]
    /\ calls = [r \in Runs |-> NoCalls]
    /\ err = [r \in Runs |-> "None"]
    /\ served = [r \in Runs |-> NoRow]
    /\ cachedAudio = [r \in Runs |-> NoPath]
    /\ nseg = [r \in Runs |-> 0]
    /\ answer = [r \in Runs |-> "None"]
    /\ video = [r \in Runs |-> NoVideo]
    /\ store = <<>>

\* An empty database and cache directory.
InitDb ==
    /\ cacheRows = {}
    /\ files = <<>>
    /\ extracted = {}
    /\ lastUpsert = <<>>
    /\ sources = [u \in Users |-> {}]

InitStreams ==
    /\ spc = [s \in Streams |-> "closed"]
    /\ stok = [s \in Streams |-> "None"]
    /\ lastProgress = [s \in Streams |-> -1]
    /\ lastEvent = [s \in Streams |-> NoEvent]
    /\ emits = [s \in Streams |-> 0]

InitKeys ==
    /\ kA = <<>>
    /\ kB = <<>>

\* text_to_audio was not called
NoSynth ==
    [pc |-> "idle", i |-> 0, sent |-> <<>>, got |-> <<>>, frames |-> <<>>, reports |-> <<>>,
     file |-> "None"]

InitPure ==
    /\ cText = <<>>
    /\ cMax = 1
    /\ sSegs = <<>>
    /\ sDur = [num |-> 0, den |-> 1]
    /\ synth = NoSynth

Init ==
    /\ geminiKey \in BOOLEAN
    /\ InitRuns
    /\ InitDb
    /\ InitStreams
    /\ InitKeys
    /\ InitPure

\* --------------------------------------------------------- progress store
\* _progress_store[progress_token] = {"progress": 0, "done": False, "error": None}
Declare(st, tok) ==
    IF tok = "None" THEN st
    ELSE [t \in DOMAIN st \cup {tok} |->
            IF t = tok THEN [progress |-> 0, done |-> FALSE, error |-> "None"] ELSE st[t]]

\* if progress_token in _progress_store: _progress_store[progress_token]["progress"] = p
SetProgressCreating(st, tok, p) ==
    IF tok = "None" THEN st
    ELSE [t \in DOMAIN st \cup {tok} |->
            IF t = tok THEN [progress |-> p, done |-> FALSE, error |-> "None"] ELSE st[t]]

SetProgress(st, tok, p) ==
    IF tok \in DOMAIN st THEN [st EXCEPT ![tok].progress = p] ELSE st

\* ...["done"] = True; ...["error"] = str(e)
MarkFailedComplete(st, tok, e) ==
    IF tok \in DOMAIN st
    THEN [st EXCEPT ![tok].done = TRUE, ![tok].error = e, ![tok].progress = 100]
    ELSE st

MarkFailed(st, tok, e) ==
    IF tok \in DOMAIN st THEN [st EXCEPT ![tok].done = TRUE, ![tok].error = e] ELSE st

\* ...["done"] = True  (lines 1289, 1299, 1323, 1643: no error is stored)
MarkDoneOnly(st, tok) ==
    IF tok \in DOMAIN st THEN [st EXCEPT ![tok].done = TRUE] ELSE st

\* ...["done"] = True; ...["progress"] = 100
MarkComplete(st, tok) ==
    IF tok \in DOMAIN st THEN [st EXCEPT ![tok].done = TRUE, ![tok].progress = 100] ELSE st

\* _progress_store.pop(token, None)
KeepEntry(st, tok) == st

Pop(st, tok) == [t \in DOMAIN st \ {tok} |-> st[t]]

Min(a, b) == IF a < b THEN a ELSE b

Max(a, b) == IF a > b THEN a ELSE b

\* build_briefing_video.report: progress_callback(min(100, max(0, pct)))
Clamp(p) == Min(100, Max(0, p))

\* What text_to_audio's report(pct) stores, through the progress callback of
\* the caller: audio_progress_callback (briefings: TTS is 40-100% of the
\* total), audio_progress_callback of generate_podcast, and the tts_cb of
\* build_briefing_video (TTS is 0-25% of the video).
UnscaledTtsProgress(k, pct) == pct

TtsProgress(k, pct) ==
    CASE k \in {"personal", "urls"} -> 40 + ((pct * 60) \div 100)
      [] k = "podcast" -> pct
      [] OTHER -> Clamp((pct * 25) \div 100)

\* report(min(90, (i + 1) * 90 // n)) after chunk i of n (i counted from 1
\* here); report(50) after the only chunk
ChunkPct(i, n) == IF n = 1 THEN 50 ELSE Min(90, (i * 90) \div n)

\* report(25 + 50 * (i + 1) // n_seg) after slide i of n (i counted from 1)
SlidePct(i, n) == 25 + ((50 * i) \div n)

\* ----------------------------------------------------------------- slides
\* MIN_SLIDE_DURATION = 8.0
MinSlideDuration == 8

\* A duration is a fraction num / den of seconds, den > 0, in lowest terms
\* (Python computes with floats; the arithmetic here is exact).
RECURSIVE Gcd(_, _)
Gcd(a, b) == IF b = 0 THEN a ELSE Gcd(b, a % b)

Abs(n) == IF n < 0 THEN -n ELSE n

Rat(n, d) ==
    LET g == Gcd(Abs(n), d) IN
    IF n = 0 THEN [num |-> 0, den |-> 1] ELSE [num |-> n \div g, den |-> d \div g]

RatOfInt(n) == [num |-> n, den |-> 1]

RatAdd(a, b) == Rat(a.num * b.den + b.num * a.den, a.den * b.den)

RatMul(a, b) == Rat(a.num * b.num, a.den * b.den)

\* a / b for b > 0
RatDiv(a, b) == Rat(a.num * b.den, a.den * b.num)

RatLess(a, b) == a.num * b.den < b.num * a.den

RatEq(a, b) == a.num * b.den = b.num * a.den

RatMax(a, b) == IF RatLess(a, b) THEN b ELSE a

RECURSIVE RatSum(_)
RatSum(l) == IF l = <<>> THEN RatOfInt(0) ELSE RatAdd(Head(l), RatSum(Tail(l)))

RECURSIVE IntSum(_)
IntSum(l) == IF l = <<>> THEN 0 ELSE Head(l) + IntSum(Tail(l))

\* " ".join(chunk)
RECURSIVE JoinSpace(_)
JoinSpace(l) ==
    IF l = <<>> THEN <<>>
    ELSE IF Len(l) = 1 THEN l[1]
    ELSE l[1] \o <<" ">> \o JoinSpace(Tail(l))

\* _split_into_slides: re.split(r"(?<=[.!?])\s+", text) cuts the text at every
\* run of whitespace that follows a ".", "!" or "?"
SentenceEnd == {".", "!", "?"}

RECURSIVE SplitSentences(_, _)
SplitSentences(t, cur) ==
    IF t = <<>> THEN <<cur>>
    ELSE IF cur # <<>> /\ cur[Len(cur)] \in SentenceEnd /\ IsSpace(Head(t))
         THEN <<cur>> \o SplitSentences(LStrip(t), <<>>)
         ELSE SplitSentences(Tail(t), Append(cur, Head(t)))

\* sentences = [s.strip() for s in raw if s.strip()]
Sentences(t) ==
    LET raw == SplitSentences(t, <<>>)
        kept == SelectSeq(raw, LAMBDA piece : Strip(piece) # <<>>)
    IN  [k \in 1..Len(kept) |-> Strip(kept[k])]

\* if current and current_len + sent_len > TARGET_SEGMENT_CHARS
NeverFlush(currentLen, sentLen, target) == FALSE

FlushAt(currentLen, sentLen, target) == currentLen + sentLen > target

\* The loop over the sentences: sent_len counts the joining space when current
\* is not empty (also when current is then flushed), and what is left of
\* current after the loop is the last segment
RECURSIVE PackSentences(_, _, _, _)
PackSentences(sents, current, currentLen, target) ==
    IF sents = <<>> THEN (IF current # <<>> THEN <<JoinSpace(current)>> ELSE <<>>)
    ELSE LET sent == Head(sents)
             sentLen == Len(sent) + (IF current # <<>> THEN 1 ELSE 0)
         IN  IF current # <<>> /\ FlushAt(currentLen, sentLen, target)
             THEN <<JoinSpace(current)>> \o PackSentences(Tail(sents), <<sent>>, sentLen, target)
             ELSE PackSentences(Tail(sents), Append(current, sent), currentLen + sentLen, target)

\* _split_into_slides(text), with target standing for TARGET_SEGMENT_CHARS
SplitIntoSlides(text, target) ==
    LET t == Strip(text) IN
    IF t = <<>> THEN <<>>
    ELSE IF Sentences(t) = <<>> THEN <<t>>
    ELSE LET segments == PackSentences(Sentences(t), <<>>, 0, target)
         IN  IF segments # <<>> THEN segments ELSE <<t>>

\* chunk_size = (len(segments) + max_slides - 1) // max_slides
FloorChunkSize(n, maxSlides) == Max(1, n \div maxSlides)

ChunkSize(n, maxSlides) == (n + maxSlides - 1) \div maxSlides

\* max_slides = max(1, int(total_duration / MIN_SLIDE_DURATION)), for a
\* positive total_duration
MaxSlides(total) == Max(1, total.num \div (total.den * MinSlideDuration))

\* _merge_segments_to_fit_duration(segments, total_duration)
MergeSegments(segments, total) ==
    IF segments = <<>> \/ total.num <= 0 THEN segments
    ELSE IF Len(segments) <= MaxSlides(total) THEN segments
    ELSE LET size == ChunkSize(Len(segments), MaxSlides(total))
             groups == (Len(segments) + size - 1) \div size
         IN  [g \in 1..groups |->
                JoinSpace(SubSeq(segments, (g - 1) * size + 1, Min(g * size, Len(segments))))]

\* raw_durations: (len(s) / total_chars) * total_duration, or
\* total_duration / len(segments) when total_chars is 0
RawDurations(lens, total) ==
    [i \in 1..Len(lens) |->
        IF IntSum(lens) # 0
        THEN RatMul(Rat(lens[i], IntSum(lens)), total)
        ELSE RatDiv(total, RatOfInt(Len(lens)))]

\* segment_durations = [max(d, MIN_SLIDE_DURATION) for d in raw_durations]
Floored(raw) == [i \in 1..Len(raw) |-> RatMax(raw[i], RatOfInt(MinSlideDuration))]

\* if seg_sum > 0: [(d / seg_sum) * total_duration for d in segment_durations]
KeepFloored(floored, total) == floored

Renormalize(floored, total) ==
    IF RatLess(RatOfInt(0), RatSum(floored))
    THEN [i \in 1..Len(floored) |-> RatMul(RatDiv(floored[i], RatSum(floored)), total)]
    ELSE floored

\* build_briefing_video, lines 262-272
SegmentDurations(segments, total) ==
    Renormalize(Floored(RawDurations([i \in 1..Len(segments) |-> Len(segments[i])], total)), total)

\* ------------------------------------------------------------ the database
\* db.query(CachedBriefingAudio).filter(user_id == u, cache_key == k)
CachedRows(rows, u, k) == {row \in rows : row.user = u /\ row.key = k}

\* .first()
First(rs) == CHOOSE row \in rs : \A other \in rs : row.id <= other.id

NextId(rows) == 1 + Cardinality(rows)

\* os.path.isfile
IsFile(fs, path) == path \in DOMAIN fs

\* Where a request writes its audio: cache/<user_id>/<sha256(cache_key)[:16]>.wav,
\* cache/<user_id>/personal.wav, <uuid4>.wav (one per request).
AudioPath(k, u, key, r) ==
    IF k \in {"personal", "urls"} THEN [dir |-> u, name |-> key]
    ELSE [dir |-> r, name |-> NoKey]

\* if cached and cached.storage_path and os.path.isfile(cached.storage_path)
CacheHit(rows, fs, u, k) ==
    /\ CachedRows(rows, u, k) # {}
    /\ IsFile(fs, First(CachedRows(rows, u, k)).path)

\* INSERT under UniqueConstraint("user_id", "cache_key"): ok is FALSE when the
\* constraint rejects the row (IntegrityError at db.commit()).
DbInsert(rows, row) ==
    IF CachedRows(rows, row.user, row.key) # {}
    THEN [rows |-> rows, ok |-> FALSE]
    ELSE [rows |-> rows \cup {row}, ok |-> TRUE]

NewRow(rows, u, k, path, d, text) ==
    [id |-> NextId(rows), user |-> u, key |-> k, path |-> path, dur |-> d, transcript |-> text]

\* existing = db.query(...).first(); if existing: update in place; else: db.add(...);
\* db.commit()
NoUpsert(rows, u, k, path, d, text) == [rows |-> rows, ok |-> TRUE]

Upsert(rows, u, k, path, d, text) ==
    IF CachedRows(rows, u, k) # {}
    THEN LET old == First(CachedRows(rows, u, k))
         IN  [rows |-> (rows \ {old})
                        \cup {[old EXCEPT !.path = path, !.dur = d, !.transcript = text]},
              ok |-> TRUE]
    ELSE DbInsert(rows, NewRow(rows, u, k, path, d, text))

\* db.query(ExtractedSummary).filter(source_url == url)
ExtractedRows(rows, url) == {row \in rows : row.url = url}

\* row = db.query(...).first(); if row:
NeverStored(rows, url) == FALSE

IsStored(rows, url) == ExtractedRows(rows, url) # {}

\* json.loads(row.summary_json) of the first row
StoredContent(rows, url) == JsonLoads((CHOOSE row \in ExtractedRows(rows, url) : TRUE).json)

\* if existing: existing.summary_json = summary_json
\* else: db.add(ExtractedSummary(...)); then db.commit(). source_url is unique:
\* ok is FALSE when the INSERT is rejected.
SaveExtracted(rows, url, content, existing) ==
    IF existing
    THEN [rows |-> (rows \ ExtractedRows(rows, url)) \cup {[url |-> url, json |-> JsonDumps(content)]},
          ok |-> TRUE]
    ELSE IF ExtractedRows(rows, url) # {}
         THEN [rows |-> rows, ok |-> FALSE]
         ELSE [rows |-> rows \cup {[url |-> url, json |-> JsonDumps(content)]}, ok |-> TRUE]

\* _summary_dict_to_content(result, url); the placeholder of line 38
ItemOf(url, content) == [source |-> url, body |-> content]

PlaceholderOf(url) == [source |-> url, body |-> PlaceholderBody]

\* generate_3min_digest_summary: text = (response.text or "").strip();
\* return text or "No summary generated."
DigestOf(out) == IF out = "" THEN NoSummaryText ELSE out

\* _get_wav_duration(output_path): frames / rate of the file that is there
DurationOf(fs, path) == IF IsFile(fs, path) THEN fs[path] ELSE "None"

\* wave.open(str(output_path), "wb"); ...; wf.writeframes(...)
WriteFile(fs, path, text) ==
    [q \in DOMAIN fs \cup {path} |-> IF q = path THEN text ELSE fs[q]]

RemoveFile(fs, path) == [q \in DOMAIN fs \ {path} |-> fs[q]]

\* -------------------------------------------------------------- the video
\* build_briefing_video, lines 279-289: the frame of a segment is the image
\* generate_slide_image saved, or, when it returned False, the gradient frame
NoFrameOf(generated) == [generated |-> generated, frame |-> "none"]

FrameOf(generated) ==
    [generated |-> generated, frame |-> IF generated THEN "image" ELSE "gradient"]

\* build_briefing_video, the finally clause (lines 332-351): the frame files
\* are unlinked and tmp_dir is removed
KeepTmp(v) == v

RemoveTmp(v) == [v EXCEPT !.dir = FALSE, !.onDisk = {}]

\* ------------------------------------------------------------ the requests
\* for url in urls: the URL the loop of get_multi_url_summary is at
CurrentUrl(r) == UsableUrls(urls[r])[idx[r]]

Briefing(k) == k \in {"personal", "urls"}

BumpCall(r, field) == [calls EXCEPT ![r][field] = @ + 1]

\* raise HTTPException before a cache key or a token exists
Reject(r, msg) ==
    /\ pc' = [pc EXCEPT ![r] = "rejected"]
    /\ err' = [err EXCEPT ![r] = msg]
    /\ UNCHANGED <<token, ckey, served, store>>

\* return FileResponse(cached.storage_path, ..., "X-Cached": "true")
ServeCached(r, u, k) ==
    /\ pc' = [pc EXCEPT ![r] = "hit"]
    /\ ckey' = [ckey EXCEPT ![r] = k]
    /\ served' = [served EXCEPT ![r] = First(CachedRows(cacheRows, u, k))]
    /\ UNCHANGED <<token, err, store>>

\* progress_token = ...; _progress_store[progress_token] = {...}
Admit(r, k, t) ==
    /\ pc' = [pc EXCEPT ![r] = "kick"]
    /\ ckey' = [ckey EXCEPT ![r] = k]
    /\ token' = [token EXCEPT ![r] = t]
    /\ store' = Declare(store, t)
    /\ UNCHANGED <<err, served>>

\* generate_podcast_from_urls, lines 1586-1617
StartUrls(r, us, toks) ==
    /\ pc[r] = "idle"
    /\ \E u \in us, l \in UrlInputs, t \in toks :
        /\ kind' = [kind EXCEPT ![r] = "urls"]
        /\ user' = [user EXCEPT ![r] = u]
        /\ urls' = [urls EXCEPT ![r] = l]
        /\ IF l = <<>> THEN Reject(r, "urls must be a non-empty list")
           ELSE IF ~geminiKey THEN Reject(r, "GEMINI_API_KEY not set")
           ELSE IF CacheHit(cacheRows, files, u, UrlsCacheKey(l))
                THEN ServeCached(r, u, UrlsCacheKey(l))
                ELSE Admit(r, UrlsCacheKey(l), t)
    /\ UNCHANGED <<geminiKey, answer, video, fresh, cachedAudio, nseg, idx, items, summary, dur, calls, dbVars, streamVars, keyVars, pureVars>>

\* generate_personal_briefing, lines 1247-1270
StartPersonal(r, us, toks) ==
    /\ pc[r] = "idle"
    /\ \E u \in us, t \in toks :
        /\ kind' = [kind EXCEPT ![r] = "personal"]
        /\ user' = [user EXCEPT ![r] = u]
        /\ IF CacheHit(cacheRows, files, u, PersonalKey)
           THEN ServeCached(r, u, PersonalKey)
           ELSE Admit(r, PersonalKey, t)
    /\ UNCHANGED <<geminiKey, answer, video, fresh, cachedAudio, nseg, urls, idx, items, summary, dur, calls, dbVars, streamVars,
                   keyVars, pureVars>>

\* generate_podcast, lines 1831-1852
StartPodcast(r, toks) ==
    /\ pc[r] = "idle"
    /\ \E text \in ScriptInputs, t \in toks :
        /\ kind' = [kind EXCEPT ![r] = "podcast"]
        /\ IF ~geminiKey \/ text = ""
           THEN /\ Reject(r, IF ~geminiKey THEN "GEMINI_API_KEY not set"
                                          ELSE "text is required and cannot be empty")
                /\ UNCHANGED <<summary, idx>>
           ELSE /\ summary' = [summary EXCEPT ![r] = text]
                /\ idx' = [idx EXCEPT ![r] = 1]
                /\ token' = [token EXCEPT ![r] = t]
                /\ store' = Declare(store, t)
                /\ pc' = [pc EXCEPT ![r] = "begin"]
                /\ UNCHANGED <<ckey, err, served>>
    /\ UNCHANGED <<geminiKey, answer, video, fresh, cachedAudio, nseg, user, urls, items, dur, calls, dbVars,
                   streamVars, keyVars, pureVars>>

\* generate_video, lines 1737-1753: the checks before anything is declared
VideoRefusal(prem, title, text) ==
    IF ~prem THEN "Premium subscription required to generate video briefings"
    ELSE IF ~geminiKey THEN "GEMINI_API_KEY not set"
    ELSE IF title = "" THEN "title is required"
    ELSE IF text = "" THEN "summary is required"
    ELSE "None"

\* generate_video, lines 1755-1769: the audio of the user's personal briefing,
\* when its record has a transcript and its file is on disk
CachedAudioPath(rows, fs, u) ==
    IF CachedRows(rows, u, PersonalKey) # {}
       /\ First(CachedRows(rows, u, PersonalKey)).transcript \notin {"None", ""}
       /\ IsFile(fs, First(CachedRows(rows, u, PersonalKey)).path)
    THEN First(CachedRows(rows, u, PersonalKey)).path
    ELSE NoPath

\* generate_video, lines 1755-1768: transcript_for_slides is the transcript of
\* the user's personal record, when there is one that is not blank
TranscriptForSlides(rows, u) ==
    IF CachedRows(rows, u, PersonalKey) # {}
       /\ First(CachedRows(rows, u, PersonalKey)).transcript \notin {"None", ""}
    THEN First(CachedRows(rows, u, PersonalKey)).transcript
    ELSE "None"

\* build_briefing_video, line 213:
\* slide_text = (transcript_for_slides or "").strip() or summary
SlideText(transcript, text) == IF transcript # "None" THEN transcript ELSE text

\* generate_video, lines 1737-1776
StartVideo(r, us, toks) ==
    /\ pc[r] = "idle"
    /\ \E u \in us, prem \in BOOLEAN, title \in {"", "t"}, text \in ScriptInputs, t \in toks :
        /\ kind' = [kind EXCEPT ![r] = "video"]
        /\ user' = [user EXCEPT ![r] = u]
        /\ IF VideoRefusal(prem, title, text) # "None"
           THEN /\ Reject(r, VideoRefusal(prem, title, text))
                /\ UNCHANGED <<summary, cachedAudio, video>>
           ELSE /\ summary' = [summary EXCEPT ![r] = text]
                /\ cachedAudio' = [cachedAudio EXCEPT ![r] = CachedAudioPath(cacheRows, files, u)]
                /\ video' = [video EXCEPT ![r].slideText =
                                 SlideText(TranscriptForSlides(cacheRows, u), text)]
                /\ token' = [token EXCEPT ![r] = t]
                /\ store' = Declare(store, t)
                /\ pc' = [pc EXCEPT ![r] = "kick"]
                /\ UNCHANGED <<ckey, err, served>>
    /\ UNCHANGED <<geminiKey, answer, fresh, nseg, urls, idx, items, dur, calls, dbVars, streamVars,
                   keyVars, pureVars>>

\* generate_podcast_from_urls, lines 1625-1630: progress 5, then the worker
\* thread starts get_multi_url_summary
KickUrls(r) ==
    /\ pc[r] = "kick" /\ kind[r] = "urls"
    /\ store' = SetProgress(store, token[r], 5)
    /\ pc' = [pc EXCEPT ![r] = "resolve"]
    /\ idx' = [idx EXCEPT ![r] = 1]
    /\ UNCHANGED <<geminiKey, answer, video, fresh, cachedAudio, nseg, kind, user, urls, token, ckey, items, summary, dur, calls, err,
                   served, dbVars, streamVars, keyVars, pureVars>>

\* generate_personal_briefing, lines 1279-1310: progress 10, _get_briefing_urls,
\* the two early exits (done without an error), progress 20
KickPersonal(r) ==
    /\ pc[r] = "kick" /\ kind[r] = "personal"
    /\ \E g \in GatheredInputs :
        IF g = <<>> \/ ~geminiKey
        THEN /\ store' = MarkDoneOnly(SetProgress(store, token[r], 10), token[r])
             /\ pc' = [pc EXCEPT ![r] = "failed"]
             /\ err' = [err EXCEPT ![r] =
                            IF g = <<>> THEN "No content to summarize" ELSE "GEMINI_API_KEY not set"]
             /\ UNCHANGED <<urls, idx>>
        ELSE /\ store' = SetProgress(store, token[r], 20)
             /\ pc' = [pc EXCEPT ![r] = "resolve"]
             /\ urls' = [urls EXCEPT ![r] = g]
             /\ idx' = [idx EXCEPT ![r] = 1]
             /\ UNCHANGED err
    /\ UNCHANGED <<geminiKey, answer, video, fresh, cachedAudio, nseg, kind, user, token, ckey, items, summary, dur, calls, served,
                   dbVars, streamVars, keyVars, pureVars>>

\* The handler after get_multi_url_summary returned text (lines 1639-1649 and
\* 1319-1329): an empty summary ends the run (done, no error); else progress 40
\* and the worker thread starts text_to_audio.
GotSummary(r, text) ==
    /\ summary' = [summary EXCEPT ![r] = text]
    /\ items' = [items EXCEPT ![r] = <<>>]
    /\ IF text = ""
       THEN /\ store' = MarkDoneOnly(store, token[r])
            /\ pc' = [pc EXCEPT ![r] = "failed"]
            /\ err' = [err EXCEPT ![r] = "No summary generated"]
            /\ idx' = [idx EXCEPT ![r] = 0]
       ELSE /\ store' = SetProgress(store, token[r], 40)
            /\ pc' = [pc EXCEPT ![r] = "begin"]
            /\ idx' = [idx EXCEPT ![r] = 1]
            /\ UNCHANGED err

\* The loop of get_multi_url_summary moves to the next URL, or is over.
NextUrl(r) ==
    /\ idx' = [idx EXCEPT ![r] = @ + 1]
    /\ pc' = [pc EXCEPT ![r] =
                 IF idx[r] = Len(UsableUrls(urls[r])) THEN "summarize" ELSE "resolve"]

\* get_multi_url_summary, lines 30-32: no usable URL, "No URLs provided." is
\* returned as the summary
NoUrls(r) ==
    /\ pc[r] = "resolve"
    /\ UsableUrls(urls[r]) = <<>>
    /\ GotSummary(r, NoUrlsText)
    /\ UNCHANGED <<geminiKey, answer, video, fresh, cachedAudio, nseg, kind, user, urls, token, ckey, dur, calls, served, dbVars,
                   streamVars, keyVars, pureVars>>

\* get_or_extract_summary, lines 35-42: the URL is in the table
ResolveStored(r) ==
    /\ pc[r] = "resolve"
    /\ UsableUrls(urls[r]) # <<>>
    /\ LET url == UsableUrls(urls[r])[idx[r]] IN
        /\ IsStored(extracted, url)
        /\ items' = [items EXCEPT ![r] = Append(@, ItemOf(url, StoredContent(extracted, url)))]
    /\ NextUrl(r)
    /\ UNCHANGED <<geminiKey, answer, video, fresh, cachedAudio, nseg, kind, user, urls, token, ckey, summary, dur, calls, err, served,
                   store, dbVars, streamVars, keyVars, pureVars>>

\* get_or_extract_summary, lines 44-52: the URL is not in the table, the
\* extractor is called
ExtractCall(r) ==
    /\ pc[r] = "resolve"
    /\ UsableUrls(urls[r]) # <<>>
    /\ ~IsStored(extracted, UsableUrls(urls[r])[idx[r]])
    /\ pc' = [pc EXCEPT ![r] = "extracting"]
    /\ calls' = BumpCall(r, "extract")
    /\ UNCHANGED <<geminiKey, answer, video, fresh, cachedAudio, nseg, kind, user, urls, token, ckey, idx, items, summary, dur, err,
                   served, store, dbVars, streamVars, keyVars, pureVars>>

\* get_or_extract_summary, lines 46-59: the extractor returned a dict; the
\* worker thread looks the URL up again (existing = ... .first())
ExtractOk(r) ==
    /\ pc[r] = "extracting"
    /\ \E c \in Contents :
        fresh' = [fresh EXCEPT ![r] =
                    [result |-> c, existing |-> IsStored(extracted, CurrentUrl(r))]]
    /\ pc' = [pc EXCEPT ![r] = "saving"]
    /\ UNCHANGED <<geminiKey, answer, video, cachedAudio, nseg, kind, user, urls, token, ckey, idx, items, summary,
                   dur, calls, err, served, store, dbVars, streamVars, keyVars, pureVars>>

\* get_or_extract_summary, lines 60-66: the row it found is updated, or a row
\* is added; db.commit(); the content is returned. Two worker threads that
\* both found no row both add one, and the second commit fails on the unique
\* source_url (IntegrityError: no handler catches it).
ExtractSave(r) ==
    /\ pc[r] = "saving"
    /\ LET url == CurrentUrl(r)
           res == SaveExtracted(extracted, url, fresh[r].result, fresh[r].existing)
       IN  /\ extracted' = res.rows
           /\ IF res.ok
              THEN /\ items' = [items EXCEPT ![r] = Append(@, ItemOf(url, fresh[r].result))]
                   /\ NextUrl(r)
                   /\ UNCHANGED err
              ELSE /\ pc' = [pc EXCEPT ![r] = "crashed"]
                   /\ err' = [err EXCEPT ![r] = "IntegrityError"]
                   /\ idx' = [idx EXCEPT ![r] = 0]
                   /\ items' = [items EXCEPT ![r] = <<>>]
    /\ fresh' = [fresh EXCEPT ![r] = NoFresh]
    /\ UNCHANGED <<geminiKey, answer, video, cachedAudio, nseg, kind, user, urls, token, ckey, summary, dur, calls,
                   served, store, cacheRows, files, lastUpsert, sources, streamVars, keyVars, pureVars>>

\* extract_text_content returned None (fetch failed, no JSON): line 54-55, and
\* the placeholder of get_multi_url_summary, line 38
ExtractNone(r) ==
    /\ pc[r] = "extracting"
    /\ LET url == UsableUrls(urls[r])[idx[r]] IN
        /\ ~IsYoutubeUrl(url)
        /\ items' = [items EXCEPT ![r] = Append(@, PlaceholderOf(url))]
    /\ NextUrl(r)
    /\ UNCHANGED <<geminiKey, answer, video, fresh, cachedAudio, nseg, kind, user, urls, token, ckey, summary, dur, calls, err, served,
                   store, dbVars, streamVars, keyVars, pureVars>>

\* youtube_url_to_text raises ValueError (audio_to_text.py, lines 129-133); the
\* handler catches it (lines 1631-1637, 1311-1317)
ExtractValueError(r) ==
    /\ pc[r] = "extracting"
    /\ IsYoutubeUrl(UsableUrls(urls[r])[idx[r]])
    /\ store' = MarkFailed(store, token[r], "Could not get video metadata or transcript")
    /\ pc' = [pc EXCEPT ![r] = "failed"]
    /\ err' = [err EXCEPT ![r] = "Could not get video metadata or transcript"]
    /\ idx' = [idx EXCEPT ![r] = 0]
    /\ items' = [items EXCEPT ![r] = <<>>]
    /\ UNCHANGED <<geminiKey, answer, video, fresh, cachedAudio, nseg, kind, user, urls, token, ckey, summary, dur, calls,
                   served, dbVars, streamVars, keyVars, pureVars>>

\* The Gemini call of _extract_with_gemini raises (an API error is no
\* ValueError): no handler catches it, the request ends with a 500 and the
\* progress entry is left as it is
ExtractCrash(r) ==
    /\ pc[r] = "extracting"
    /\ ~IsYoutubeUrl(UsableUrls(urls[r])[idx[r]])
    /\ pc' = [pc EXCEPT ![r] = "crashed"]
    /\ err' = [err EXCEPT ![r] = "extractor API error"]
    /\ idx' = [idx EXCEPT ![r] = 0]
    /\ items' = [items EXCEPT ![r] = <<>>]
    /\ UNCHANGED <<geminiKey, answer, video, fresh, cachedAudio, nseg, kind, user, urls, token, ckey, summary, dur, calls,
                   served, store, dbVars, streamVars, keyVars, pureVars>>

\* generate_3min_digest_summary (service.py, lines 43-67) answers
SummarizeOk(r, outs) ==
    /\ pc[r] = "summarize"
    /\ calls' = BumpCall(r, "summarize")
    /\ \E out \in outs :
        /\ answer' = [answer EXCEPT ![r] = out]
        /\ GotSummary(r, DigestOf(out))
    /\ UNCHANGED <<geminiKey, video, fresh, cachedAudio, nseg, kind, user, urls, token, ckey, dur, served, dbVars,
                   streamVars, keyVars, pureVars>>

\* client.models.generate_content raises (an API error is no ValueError)
SummarizeCrash(r) ==
    /\ pc[r] = "summarize"
    /\ calls' = BumpCall(r, "summarize")
    /\ pc' = [pc EXCEPT ![r] = "crashed"]
    /\ err' = [err EXCEPT ![r] = "summarizer API error"]
    /\ idx' = [idx EXCEPT ![r] = 0]
    /\ items' = [items EXCEPT ![r] = <<>>]
    /\ UNCHANGED <<geminiKey, answer, video, fresh, cachedAudio, nseg, kind, user, urls, token, ckey, summary, dur, served,
                   store, dbVars, streamVars, keyVars, pureVars>>

\* text_to_audio, lines 153-157: the text is split, report(0)
TtsBegin(r) ==
    /\ pc[r] = "begin"
    /\ store' = SetProgress(store, token[r], TtsProgress(kind[r], 0))
    /\ pc' = [pc EXCEPT ![r] = "tts"]
    /\ UNCHANGED <<geminiKey, answer, video, fresh, cachedAudio, nseg, kind, user, urls, token, ckey, idx, items,
                   summary, dur, calls, err, served, dbVars, streamVars, keyVars, pureVars>>

\* text_to_audio, lines 158-178: _tts_single_chunk answered for chunk idx
TtsChunkOk(r) ==
    /\ pc[r] = "tts"
    /\ calls' = BumpCall(r, "tts")
    /\ store' = SetProgress(store, token[r],
                            TtsProgress(kind[r], ChunkPct(idx[r], NChunks(summary[r]))))
    /\ idx' = [idx EXCEPT ![r] = @ + 1]
    /\ pc' = [pc EXCEPT ![r] = IF idx[r] = NChunks(summary[r]) THEN "write" ELSE "tts"]
    /\ UNCHANGED <<geminiKey, answer, video, fresh, cachedAudio, nseg, kind, user, urls, token, ckey, items, summary,
                   dur, err, served, dbVars, streamVars, keyVars, pureVars>>

\* _tts_single_chunk raises (ValueError: no audio; or an API error): the
\* handler catches both and stores the message (lines 1663-1676, 1344-1357,
\* 1873-1886, 1796-1809)
TtsChunkFail(r, msgs) ==
    /\ pc[r] = "tts"
    /\ calls' = BumpCall(r, "tts")
    /\ \E msg \in msgs :
        /\ store' = MarkFailed(store, token[r], msg)
        /\ err' = [err EXCEPT ![r] = msg]
    /\ pc' = [pc EXCEPT ![r] = "failed"]
    /\ video' = [video EXCEPT ![r] = IF kind[r] = "video" THEN RemoveTmp(@) ELSE @]
    /\ UNCHANGED <<geminiKey, answer, fresh, cachedAudio, nseg, kind, user, urls, token, ckey, idx, items,
                   summary, dur, served, dbVars, streamVars, keyVars, pureVars>>

\* text_to_audio, lines 163-168 and 181-186: the WAV file is written, report(100)
TtsWrite(r) ==
    /\ pc[r] = "write"
    /\ files' = WriteFile(files, AudioPath(kind[r], user[r], ckey[r], r), summary[r])
    /\ store' = SetProgress(store, token[r], TtsProgress(kind[r], 100))
    /\ pc' = [pc EXCEPT ![r] = "measure"]
    /\ UNCHANGED <<geminiKey, answer, video, fresh, cachedAudio, nseg, kind, user, urls, token, ckey, idx, items,
                   summary, dur, calls, err, served, cacheRows, extracted, lastUpsert, sources,
                   streamVars, keyVars, pureVars>>

\* text_to_audio, lines 188-189: the duration is read from the file and the
\* worker thread returns; build_briefing_video goes on with report(25) and the
\* merge of the segments (lines 254-260)
TtsReturn(r) ==
    /\ pc[r] = "measure"
    /\ dur' = [dur EXCEPT ![r] = DurationOf(files, AudioPath(kind[r], user[r], ckey[r], r))]
    /\ IF kind[r] = "video"
       THEN /\ store' = SetProgress(store, token[r], Clamp(25))
            /\ pc' = [pc EXCEPT ![r] = "slide"]
            /\ idx' = [idx EXCEPT ![r] = 1]
            /\ \E n \in 1..MaxSegs : nseg' = [nseg EXCEPT ![r] = n]
       ELSE /\ pc' = [pc EXCEPT ![r] = "finish"]
            /\ UNCHANGED <<store, idx, nseg>>
    /\ UNCHANGED <<geminiKey, answer, video, fresh, cachedAudio, kind, user, urls, token, ckey, items, summary, calls,
                   err, served, dbVars, streamVars, keyVars, pureVars>>

\* The handler after text_to_audio returned (lines 1678-1706, 1359-1388,
\* 1888-1892) or build_briefing_video returned (lines 1811-1815): done and
\* progress 100, then, for a briefing, the upsert of the cache row
Finish(r) ==
    /\ pc[r] = "finish"
    /\ store' = MarkComplete(store, token[r])
    /\ IF Briefing(kind[r])
       THEN LET path == AudioPath(kind[r], user[r], ckey[r], r)
                res == Upsert(cacheRows, user[r], ckey[r], path, dur[r], summary[r])
            IN  /\ cacheRows' = res.rows
                /\ pc' = [pc EXCEPT ![r] = IF res.ok THEN "done" ELSE "upsert_error"]
                /\ lastUpsert' =
                      IF res.ok
                      THEN [q \in DOMAIN lastUpsert \cup {<<user[r], ckey[r]>>} |->
                              IF q = <<user[r], ckey[r]>>
                              THEN [path |-> path, dur |-> dur[r], transcript |-> summary[r]]
                              ELSE lastUpsert[q]]
                      ELSE lastUpsert
       ELSE /\ pc' = [pc EXCEPT ![r] = "done"]
            /\ UNCHANGED <<cacheRows, lastUpsert>>
    /\ UNCHANGED <<geminiKey, answer, video, fresh, cachedAudio, nseg, kind, user, urls, token, ckey, idx, items,
                   summary, dur, calls, err, served, files, extracted, sources, streamVars, keyVars, pureVars>>

\* build_briefing_video, lines 223-239: tmp_dir is made, report(0); the cached
\* audio is used when its file is there, else text_to_audio is called
KickVideo(r) ==
    /\ pc[r] = "kick" /\ kind[r] = "video"
    /\ store' = SetProgress(store, token[r], Clamp(0))
    /\ pc' = [pc EXCEPT ![r] =
                 IF cachedAudio[r] # NoPath /\ IsFile(files, cachedAudio[r]) THEN "copy" ELSE "begin"]
    /\ idx' = [idx EXCEPT ![r] = 1]
    /\ video' = [video EXCEPT ![r].dir = TRUE]
    /\ UNCHANGED <<geminiKey, answer, fresh, cachedAudio, nseg, kind, user, urls, token, ckey, items,
                   summary, dur, calls, err, served, dbVars, streamVars, keyVars, pureVars>>

\* The handler's except clauses around build_briefing_video (lines 1796-1809),
\* after the finally clause of build_briefing_video removed the temporary
\* audio, the frames and tmp_dir (lines 332-351)
VideoAbort(r, msg) ==
    /\ store' = MarkFailed(store, token[r], msg)
    /\ err' = [err EXCEPT ![r] = msg]
    /\ pc' = [pc EXCEPT ![r] = "failed"]
    /\ files' = RemoveFile(files, AudioPath(kind[r], user[r], ckey[r], r))
    /\ video' = [video EXCEPT ![r] = RemoveTmp(@)]

\* build_briefing_video, lines 240-242 and 254-260: shutil.copy2 of the cached
\* audio (it fails when the file is gone by now), report(25), the merge of the
\* segments
VideoCopy(r) ==
    /\ pc[r] = "copy"
    /\ IF IsFile(files, cachedAudio[r])
       THEN /\ files' = WriteFile(files, AudioPath(kind[r], user[r], ckey[r], r),
                                  files[cachedAudio[r]])
            /\ store' = SetProgress(store, token[r], Clamp(25))
            /\ pc' = [pc EXCEPT ![r] = "slide"]
            /\ \E n \in 1..MaxSegs : nseg' = [nseg EXCEPT ![r] = n]
            /\ UNCHANGED <<err, video>>
       ELSE /\ VideoAbort(r, "No such file or directory")
            /\ UNCHANGED nseg
    /\ UNCHANGED <<geminiKey, answer, fresh, cachedAudio, kind, user, urls, token, ckey, idx, items,
                   summary, dur, calls, served, cacheRows, extracted, lastUpsert, sources, streamVars,
                   keyVars, pureVars>>

\* build_briefing_video, lines 274-289: the frame of slide idx is written to
\* tmp_dir (generate_slide_image saves the image or returns False, and then the
\* gradient frame is made), report(25 + 50 * (i + 1) // n_seg)
Slide(r) ==
    /\ pc[r] = "slide"
    /\ \E generated \in BOOLEAN :
        video' = [video EXCEPT ![r].frames = Append(@, FrameOf(generated)),
                               ![r].onDisk = @ \cup {idx[r]}]
    /\ store' = SetProgress(store, token[r], Clamp(SlidePct(idx[r], nseg[r])))
    /\ idx' = [idx EXCEPT ![r] = @ + 1]
    /\ pc' = [pc EXCEPT ![r] = IF idx[r] = nseg[r] THEN "concat" ELSE "slide"]
    /\ UNCHANGED <<geminiKey, answer, fresh, cachedAudio, nseg, kind, user, urls, token, ckey, items,
                   summary, dur, calls, err, served, dbVars, streamVars, keyVars, pureVars>>

\* build_briefing_video, lines 291-314: the clips are built, report(85)
Concat(r) ==
    /\ pc[r] = "concat"
    /\ store' = SetProgress(store, token[r], Clamp(85))
    /\ pc' = [pc EXCEPT ![r] = "mux"]
    /\ UNCHANGED <<geminiKey, answer, video, fresh, cachedAudio, nseg, kind, user, urls, token, ckey, idx, items,
                   summary, dur, calls, err, served, dbVars, streamVars, keyVars, pureVars>>

\* build_briefing_video, lines 315-351: write_videofile with the audio of
\* tmp_dir/audio.wav, report(100), and the finally clause removes the
\* temporary audio, the frames and tmp_dir
Mux(r) ==
    /\ pc[r] = "mux"
    /\ store' = SetProgress(store, token[r], Clamp(100))
    /\ files' = RemoveFile(files, AudioPath(kind[r], user[r], ckey[r], r))
    /\ video' = [video EXCEPT ![r] =
                    [RemoveTmp(@) EXCEPT !.mp4 = TRUE,
                                         !.narrated = files[AudioPath(kind[r], user[r], ckey[r], r)]]]
    /\ pc' = [pc EXCEPT ![r] = "finish"]
    /\ UNCHANGED <<geminiKey, answer, fresh, cachedAudio, nseg, kind, user, urls, token, ckey, idx, items,
                   summary, dur, calls, err, served, cacheRows, extracted, lastUpsert, sources, streamVars,
                   keyVars, pureVars>>

\* Pillow or moviepy raises while a frame is drawn, the clips are built or the
\* file is written
VideoFail(r) ==
    /\ pc[r] \in {"slide", "concat", "mux"}
    /\ VideoAbort(r, "video assembly failed")
    /\ UNCHANGED <<geminiKey, answer, fresh, cachedAudio, nseg, kind, user, urls, token, ckey, idx, items,
                   summary, dur, calls, served, cacheRows, extracted, lastUpsert, sources, streamVars,
                   keyVars, pureVars>>

\* ----------------------------------------------------------- progress_sse
\* data: {"progress": 0, "done": false} (the token has no entry)
NotStarted == [progress |-> 0, done |-> FALSE, error |-> "absent"]

\* GET /progress?token=...: the stream starts with last_progress = -1
StreamOpen(s, toks) ==
    /\ spc[s] = "closed"
    /\ \E t \in toks : stok' = [stok EXCEPT ![s] = t]
    /\ spc' = [spc EXCEPT ![s] = "poll"]
    /\ UNCHANGED <<geminiKey, runVars, store, dbVars, lastProgress, lastEvent, emits, keyVars, pureVars>>

\* One round of the loop of stream(), lines 1434-1446: the entry is read; an
\* event is sent when there is no entry, when the progress differs from the
\* last one sent, or when the entry is done
StreamPoll(s) ==
    /\ spc[s] = "poll"
    /\ IF stok[s] \notin DOMAIN store
       THEN /\ emits[s] < MaxEmits
            /\ lastEvent' = [lastEvent EXCEPT ![s] = NotStarted]
            /\ UNCHANGED <<spc, lastProgress>>
       ELSE LET entry == store[stok[s]] IN
            /\ entry.progress # lastProgress[s] \/ entry.done
            /\ lastProgress' = [lastProgress EXCEPT ![s] = entry.progress]
            /\ lastEvent' = [lastEvent EXCEPT ![s] = entry]
            /\ spc' = [spc EXCEPT ![s] = IF entry.done THEN "pop" ELSE "poll"]
    /\ emits' = [emits EXCEPT ![s] = @ + 1]
    /\ UNCHANGED <<geminiKey, runVars, store, dbVars, stok, keyVars, pureVars>>

\* stream(), lines 1447-1450: after the event of a done entry was sent, the
\* entry is removed and the stream ends
StreamPop(s) ==
    /\ spc[s] = "pop"
    /\ store' = Pop(store, stok[s])
    /\ spc' = [spc EXCEPT ![s] = "end"]
    /\ UNCHANGED <<geminiKey, runVars, dbVars, stok, lastProgress, lastEvent, emits, keyVars, pureVars>>

\* An audio file of the cache directory (under /tmp) disappears: the handlers
\* test os.path.isfile for this case.
EvictFile(path) ==
    /\ path \in DOMAIN files
    /\ path.name # NoKey
    /\ files' = RemoveFile(files, path)
    /\ UNCHANGED <<geminiKey, runVars, store, cacheRows, extracted, lastUpsert, sources, streamVars,
                   keyVars, pureVars>>

\* The URLs a user may follow.
SourceUrls == {UrlA}

\* db.query(CachedBriefingAudio).filter(user_id == u, cache_key == "personal").delete()
DropPersonal(rows, u) == rows \ CachedRows(rows, u, PersonalKey)

\* create_source (main.py, lines 776-814): the source is added, then the
\* record of the user's personal briefing is deleted; its audio file stays.
CreateSource(u, url) ==
    /\ url \notin sources[u]
    /\ sources' = [sources EXCEPT ![u] = @ \cup {url}]
    /\ cacheRows' = DropPersonal(cacheRows, u)
    /\ lastUpsert' = [q \in DOMAIN lastUpsert \ {<<u, PersonalKey>>} |-> lastUpsert[q]]
    /\ UNCHANGED <<geminiKey, runVars, store, files, extracted, streamVars, keyVars, pureVars>>

\* delete_source (main.py, lines 817-835): the source is removed, then the
\* record of the user's personal briefing is deleted.
DeleteSource(u, url) ==
    /\ url \in sources[u]
    /\ sources' = [sources EXCEPT ![u] = @ \ {url}]
    /\ cacheRows' = DropPersonal(cacheRows, u)
    /\ lastUpsert' = [q \in DOMAIN lastUpsert \ {<<u, PersonalKey>>} |-> lastUpsert[q]]
    /\ UNCHANGED <<geminiKey, runVars, store, files, extracted, streamVars, keyVars, pureVars>>

\* add_preference_source (main.py, lines 1008-1049): the source is added to
\* the same table; the cache is not looked at.
AddPreferenceSource(u, url) ==
    /\ url \notin sources[u]
    /\ sources' = [sources EXCEPT ![u] = @ \cup {url}]
    /\ UNCHANGED <<geminiKey, runVars, store, cacheRows, files, extracted, lastUpsert, streamVars,
                   keyVars, pureVars>>

\* A source of the user is added or removed while the record of the personal
\* briefing exists: the record is deleted.
InvalidateBriefing(u) ==
    /\ CachedRows(cacheRows, u, PersonalKey) # {}
    /\ \E url \in SourceUrls : CreateSource(u, url) \/ DeleteSource(u, url)

\* The steps of a briefing request's worker threads and of its handler after
\* them.
BriefingStep(r) ==
    \/ KickUrls(r) \/ KickPersonal(r)
    \/ NoUrls(r) \/ ResolveStored(r) \/ ExtractCall(r)
    \/ ExtractOk(r) \/ ExtractSave(r) \/ ExtractNone(r) \/ ExtractValueError(r) \/ ExtractCrash(r)
    \/ SummarizeCrash(r)

\* The steps of text_to_audio and of the handler after it.
TtsStep(r) ==
    \/ TtsBegin(r) \/ TtsChunkOk(r) \/ TtsWrite(r) \/ TtsReturn(r) \/ Finish(r)

\* The steps of build_briefing_video around text_to_audio.
VideoStep(r) ==
    \/ KickVideo(r) \/ VideoCopy(r) \/ Slide(r) \/ Concat(r) \/ Mux(r) \/ VideoFail(r)

\* Two concurrent briefing requests, the cache and the files. The first
\* request is user u1's and carries a progress token, the second is any user's
\* and carries none.
SpecUsers(r) == IF r = "r1" THEN {"u1"} ELSE Users

SpecTokens(r) == IF r = "r1" THEN {r} ELSE {"None"}

Next ==
    \/ \E r \in Runs :
        \/ StartUrls(r, SpecUsers(r), SpecTokens(r))
        \/ StartPersonal(r, SpecUsers(r), SpecTokens(r))
        \/ BriefingStep(r)
        \/ TtsStep(r)
        \/ SummarizeOk(r, ShortOutputs)
        \/ TtsChunkFail(r, {"TTS API error"})
    \/ \E path \in DOMAIN files : EvictFile(path)

Spec == Init /\ [][Next]_vars

\* One request of any of the four kinds, whose token is its own, and a
\* progress stream of that token. The database is empty, or holds what an
\* earlier personal briefing of the user left: its cache row and audio file,
\* and the content of the URL it read.
ProgRun == "r1"

EarlierRow ==
    [id |-> 1, user |-> "u1", key |-> PersonalKey,
     path |-> AudioPath("personal", "u1", PersonalKey, "r2"), dur |-> "T1", transcript |-> "T1"]

InitDbEarlier ==
    /\ cacheRows = {EarlierRow}
    /\ files = WriteFile(<<>>, EarlierRow.path, "T1")
    /\ extracted = SaveExtracted({}, UrlA, "c1", FALSE).rows
    /\ lastUpsert = [q \in {<<"u1", PersonalKey>>} |->
                        [path |-> EarlierRow.path, dur |-> "T1", transcript |-> "T1"]]
    /\ sources = [u \in Users |-> {}]

InitProg ==
    /\ geminiKey \in BOOLEAN
    /\ InitRuns
    /\ InitDb \/ InitDbEarlier
    /\ InitStreams
    /\ InitKeys
    /\ InitPure

NextProg ==
    \/ StartUrls(ProgRun, {"u1"}, {ProgRun})
    \/ StartPersonal(ProgRun, {"u1"}, {ProgRun})
    \/ StartPodcast(ProgRun, {ProgRun})
    \/ StartVideo(ProgRun, {"u1"}, {ProgRun})
    \/ BriefingStep(ProgRun)
    \/ TtsStep(ProgRun)
    \/ VideoStep(ProgRun)
    \/ SummarizeOk(ProgRun, AnyOutputs)
    \/ TtsChunkFail(ProgRun, TtsErrors)
    \/ StreamOpen("s1", {ProgRun}) \/ StreamPoll("s1") \/ StreamPop("s1")
    \/ \E path \in DOMAIN files : EvictFile(path)
    \/ InvalidateBriefing("u1")

ProgSpec == InitProg /\ [][NextProg]_vars

\* Two URL lists as clients send them: kB follows kA, with entries moved,
\* padded with whitespace, repeated, or blank entries put in.
KeyAdd(u) ==
    /\ Len(kA) < MaxKeyLen /\ Len(kB) < MaxKeyLen
    /\ kA' = Append(kA, u)
    /\ kB' = Append(kB, u)

KeySwap(i) ==
    /\ i < Len(kB)
    /\ kB' = [kB EXCEPT ![i] = kB[i + 1], ![i + 1] = kB[i]]
    /\ UNCHANGED kA

KeyPad(i, left) ==
    /\ Len(kB[i]) < MaxUrlLen
    /\ kB' = [kB EXCEPT ![i] = IF left THEN <<" ">> \o @ ELSE Append(@, " ")]
    /\ UNCHANGED kA

KeyRepeat(i) ==
    /\ Len(kB) < MaxKeyLen
    /\ kB' = Append(kB, kB[i])
    /\ UNCHANGED kA

KeyBlank ==
    /\ Len(kB) < MaxKeyLen
    /\ kB' = <<Blank>> \o kB
    /\ UNCHANGED kA

NextKey ==
    /\ \/ \E u \in {UrlA, UrlY} : KeyAdd(u)
       \/ \E i \in 1..Len(kB) : KeySwap(i) \/ KeyRepeat(i) \/ \E left \in BOOLEAN : KeyPad(i, left)
       \/ KeyBlank
    /\ UNCHANGED <<geminiKey, runVars, store, dbVars, streamVars, pureVars>>

KeySpec == Init /\ [][NextKey]_vars

\* A text is typed and max_chars chosen, and the text is split.
ChunkType(c) ==
    /\ Len(cText) < MaxTextLen
    /\ cText' = Append(cText, c)
    /\ UNCHANGED cMax

ChunkWiden ==
    /\ cMax < MaxChunkChars
    /\ cMax' = cMax + 1
    /\ UNCHANGED cText

NextChunk ==
    /\ \/ \E c \in TextChars : ChunkType(c)
       \/ ChunkWiden
    /\ UNCHANGED <<geminiKey, runVars, store, dbVars, streamVars, keyVars, sSegs, sDur, synth>>

ChunkSpec == Init /\ [][NextChunk]_vars

\* Segments of a narration (a segment may be empty) and the duration of its
\* audio, which the slide merge and the duration allocation are given.
SegmentTexts == {<<>>, <<"a">>, <<"a", ".", " ", "a">>}

SlideAddSegment(t) ==
    /\ Len(sSegs) < MaxSlideSegs
    /\ sSegs' = Append(sSegs, t)
    /\ UNCHANGED sDur

SlideSetDuration(h) ==
    /\ sDur' = Rat(h, 2)
    /\ sDur' # sDur
    /\ UNCHANGED sSegs

NextSlide ==
    /\ \/ \E t \in SegmentTexts : SlideAddSegment(t)
       \/ \E h \in -1..MaxHalfSeconds : SlideSetDuration(h)
    /\ UNCHANGED <<geminiKey, runVars, store, dbVars, streamVars, keyVars, cText, cMax, synth>>

SlideSpec == Init /\ [][NextSlide]_vars

\* One plain podcast request and two progress streams of its token.
NextStream ==
    \/ StartPodcast(ProgRun, {ProgRun})
    \/ TtsStep(ProgRun)
    \/ TtsChunkFail(ProgRun, TtsErrors)
    \/ \E s \in Streams : StreamOpen(s, {ProgRun}) \/ StreamPoll(s) \/ StreamPop(s)

StreamSpec == Init /\ [][NextStream]_vars

\* A text given to _split_into_slides (cText), and the number of characters
\* a segment aims at (cMax).
SegmentType(c) ==
    /\ Len(cText) < MaxTextLen
    /\ cText' = Append(cText, c)
    /\ UNCHANGED cMax

SegmentWiden ==
    /\ cMax < MaxChunkChars
    /\ cMax' = cMax + 1
    /\ UNCHANGED cText

NextSegment ==
    /\ \/ \E c \in TextChars : SegmentType(c)
       \/ SegmentWiden
    /\ UNCHANGED <<geminiKey, runVars, store, dbVars, streamVars, keyVars, sSegs, sDur, synth>>

SegmentSpec == Init /\ [][NextSegment]_vars

\* One briefing request with a progress token and a stream of that token, both
\* scheduled fairly: the event loop and the worker threads run every step
\* that stays possible, and the stream polls every 0.25 s for as long as it
\* is open.
RequestNext ==
    \/ StartUrls(ProgRun, {"u1"}, {ProgRun})
    \/ StartPersonal(ProgRun, {"u1"}, {ProgRun})
    \/ BriefingStep(ProgRun)
    \/ SummarizeOk(ProgRun, AnyOutputs)
    \/ TtsStep(ProgRun)
    \/ TtsChunkFail(ProgRun, TtsErrors)

StreamNext == StreamOpen("s1", {ProgRun}) \/ StreamPoll("s1") \/ StreamPop("s1")

NextLive == RequestNext \/ StreamNext

LiveSpec == InitProg /\ [][NextLive]_vars /\ WF_vars(RequestNext) /\ WF_vars(StreamNext)

\* The users change the sources they follow while personal briefings are
\* requested: two requests, of user u1 and of any user.
NextSource ==
    \/ \E u \in Users, url \in SourceUrls :
          CreateSource(u, url) \/ DeleteSource(u, url) \/ AddPreferenceSource(u, url)
    \/ \E r \in Runs :
        \/ StartPersonal(r, SpecUsers(r), {"None"})
        \/ KickPersonal(r) \/ ResolveStored(r) \/ ExtractCall(r) \/ ExtractOk(r)
        \/ ExtractSave(r) \/ ExtractNone(r) \/ ExtractCrash(r) \/ SummarizeCrash(r)
        \/ SummarizeOk(r, {"T1"})
        \/ TtsStep(r)

SourceSpec == InitProg /\ [][NextSource]_vars

\* One call of text_to_audio(text, output_path) with the text cText and chunks
\* of at most cMax characters. The provider answers a call with audio data
\* that is not empty, or the call raises.
MaxSynthLen == 4

Audio == {<<"p">>, <<"q", "q">>}

RECURSIVE TextsUpTo(_)
TextsUpTo(n) ==
    IF n = 0 THEN {<<>>}
    ELSE TextsUpTo(n - 1)
         \cup {Append(t, c) : t \in {u \in TextsUpTo(n - 1) : Len(u) = n - 1}, c \in TextChars}

SynthChunks == SplitIntoChunks(cText, cMax)

\* all_frames += data
PrependFrames(all, data) == data \o all

AppendFrames(all, data) == all \o data

\* text_to_audio, lines 153-161: chunks = _split_into_chunks(...); no chunk
\* raises ValueError; report(0)
SynthStart ==
    /\ synth.pc = "idle"
    /\ synth' = IF SynthChunks = <<>>
                THEN [synth EXCEPT !.pc = "raised"]
                ELSE [synth EXCEPT !.pc = "next", !.i = 1, !.reports = <<0>>]
    /\ UNCHANGED <<cText, cMax, sSegs, sDur>>

\* text_to_audio, lines 164 and 172-175: the next chunk is handed to
\* _tts_single_chunk (a chunk of whitespace only is passed over)
SynthCall ==
    /\ synth.pc = "next"
    /\ synth' = IF Strip(SynthChunks[synth.i]) = <<>>
                THEN [synth EXCEPT !.i = @ + 1,
                                   !.pc = IF synth.i = Len(SynthChunks) THEN "write" ELSE "next"]
                ELSE [synth EXCEPT !.pc = "calling",
                                   !.sent = Append(@, SynthChunks[synth.i])]
    /\ UNCHANGED <<cText, cMax, sSegs, sDur>>

\* text_to_audio, lines 164-165 and 175-177: _tts_single_chunk returned data;
\* all_frames += data; report(50), or report(min(90, (i + 1) * 90 // n))
SynthReturn(data) ==
    /\ synth.pc = "calling"
    /\ synth' = [synth EXCEPT !.got = Append(@, data),
                              !.frames = AppendFrames(@, data),
                              !.reports = Append(@, ChunkPct(synth.i, Len(SynthChunks))),
                              !.i = @ + 1,
                              !.pc = IF synth.i = Len(SynthChunks) THEN "write" ELSE "next"]
    /\ UNCHANGED <<cText, cMax, sSegs, sDur>>

\* _tts_single_chunk raises (no audio in the response, or an API error)
SynthRaise ==
    /\ synth.pc = "calling"
    /\ synth' = [synth EXCEPT !.pc = "raised"]
    /\ UNCHANGED <<cText, cMax, sSegs, sDur>>

\* text_to_audio, lines 166-171 and 179-186: ValueError when all_frames is
\* empty; else the WAV file is written and report(100)
SynthWrite ==
    /\ synth.pc = "write"
    /\ synth' = IF synth.frames = <<>>
                THEN [synth EXCEPT !.pc = "raised"]
                ELSE [synth EXCEPT !.pc = "done", !.file = synth.frames,
                                   !.reports = Append(@, 100)]
    /\ UNCHANGED <<cText, cMax, sSegs, sDur>>

InitSynth ==
    /\ geminiKey = TRUE
    /\ InitRuns
    /\ InitDb
    /\ InitStreams
    /\ InitKeys
    /\ cText \in TextsUpTo(MaxSynthLen)
    /\ cMax \in 1..MaxChunkChars
    /\ sSegs = <<>>
    /\ sDur = [num |-> 0, den |-> 1]
    /\ synth = NoSynth

NextSynth ==
    /\ \/ SynthStart
       \/ SynthCall
       \/ \E data \in Audio : SynthReturn(data)
       \/ SynthRaise
       \/ SynthWrite
    /\ UNCHANGED <<geminiKey, runVars, store, dbVars, streamVars, keyVars>>

SynthSpec == InitSynth /\ [][NextSynth]_vars

\* Two concurrent plain podcast requests whose tokens the clients choose (they
\* may choose the same one), and a progress stream of one of the tokens.
TokenPool == {"t1", "t2"}

NextFrame ==
    \/ \E r \in Runs : StartPodcast(r, TokenPool) \/ TtsStep(r) \/ TtsChunkFail(r, {"TTS API error"})
    \/ StreamOpen("s1", TokenPool) \/ StreamPoll("s1") \/ StreamPop("s1")

FrameSpec == Init /\ [][NextFrame]_vars

\* ------------------------------------------------------------------ claims
Terminal == {"rejected", "hit", "failed", "crashed", "done", "upsert_error"}

\* The cache key of a request of kind k for the URL list l.
RequestKey(k, l) == IF k = "personal" THEN PersonalKey ELSE UrlsCacheKey(l)

\* C1: a briefing request that arrives while a cache record exists for its
\* user and the cache key of its URL list (or "personal"), and the audio file
\* of that record is on disk, is answered with that record: it makes no
\* extractor, summarizer or synthesizer call, neither then nor later, and
\* leaves the table and the files as they are.
CacheHitServesRecord ==
    [][\A r \in Runs :
        /\ (/\ pc[r] = "idle" /\ pc'[r] # "idle"
            /\ \E row \in cacheRows :
                 /\ row.user = user'[r]
                 /\ row.key = RequestKey(kind'[r], urls'[r])
                 /\ IsFile(files, row.path))
           => /\ pc'[r] = "hit"
              /\ served'[r] \in cacheRows
              /\ served'[r].user = user'[r]
              /\ served'[r].key = RequestKey(kind'[r], urls'[r])
              /\ calls'[r] = NoCalls
              /\ cacheRows' = cacheRows /\ files' = files /\ extracted' = extracted
        /\ pc[r] = "hit" => (pc'[r] = "hit" /\ calls'[r] = NoCalls)
      ]_vars

\* C2: a request whose URL list has no usable URL (empty, or blank entries
\* only) makes no extractor, summarizer or TTS call, creates no cache record,
\* and ends refused.
NoUsableUrlRefused ==
    \A r \in Runs :
        (kind[r] = "urls" /\ UsableUrls(urls[r]) = <<>>)
        => /\ calls[r] = NoCalls
           /\ pc[r] \in Terminal => pc[r] = "rejected"
           /\ \A row \in cacheRows :
                ~(row.user = user[r] /\ row.key = UrlsCacheKey(urls[r]))

\* C3: a request that declared a progress token and failed leaves its
\* progress entry with done = true and the failure message as error.
FailedRunStoresError ==
    \A r \in Runs :
        (pc[r] \in {"failed", "crashed"} /\ token[r] \in DOMAIN store)
        => /\ store[token[r]].done
           /\ store[token[r]].error # "None"
           /\ store[token[r]].error = err[r]

\* C8: the transcript of every cache record is the text spoken by the audio
\* file at the record's storage path.
TranscriptIsSpokenText ==
    \A row \in cacheRows :
        IsFile(files, row.path) => files[row.path] = row.transcript

\* The upsert of the cache row is one step of the event loop: no upsert fails,
\* there is at most one row per (user, cache key), and that row holds what the
\* last upsert for the key wrote.
UpsertAtomic ==
    /\ \A r \in Runs : pc[r] # "upsert_error"
    /\ \A a \in cacheRows, b \in cacheRows :
         (a.user = b.user /\ a.key = b.key) => a = b
    /\ \A q \in DOMAIN lastUpsert :
         \E row \in cacheRows :
            /\ row.user = q[1] /\ row.key = q[2]
            /\ row.path = lastUpsert[q].path
            /\ row.dur = lastUpsert[q].dur
            /\ row.transcript = lastUpsert[q].transcript

\* What ends a request when a provider fails.
ProviderFailures ==
    {"extractor API error", "summarizer API error",
     "Could not get video metadata or transcript"} \cup TtsErrors

\* C9: whatever the interleaving of concurrent briefing requests, every
\* request that missed the cache synthesizes and upserts (unless its input or
\* a provider failed it), no upsert fails, there is at most one row per
\* (user, cache key), and the row holds what the last upsert wrote.
ConcurrentBriefingsAllSynthesize ==
    /\ UpsertAtomic
    /\ \A r \in Runs :
         (Briefing(kind[r]) /\ pc[r] \in {"done", "crashed", "upsert_error"})
         => \/ pc[r] = "done" /\ calls[r].tts >= 1
            \/ err[r] \in ProviderFailures

\* C10: a getOrExtract for a URL that is in the table returns the stored
\* content, calls no extractor and leaves the table as it is, whoever asks;
\* an extraction that fails (None, or an exception) stores nothing.
ExtractionMemoized ==
    [][\A r \in Runs :
        /\ (/\ pc[r] = "resolve" /\ UsableUrls(urls[r]) # <<>>
            /\ <<pc[r], idx[r]>> # <<pc'[r], idx'[r]>>
            /\ \E row \in extracted : row.url = CurrentUrl(r))
           => /\ calls'[r] = calls[r]
              /\ extracted' = extracted
              /\ \E row \in extracted :
                    /\ row.url = CurrentUrl(r)
                    /\ items'[r] = Append(items[r], ItemOf(row.url, JsonLoads(row.json)))
        /\ (/\ pc[r] \in {"extracting", "saving"} /\ pc'[r] # pc[r]
            /\ \/ pc'[r] \in {"failed", "crashed"}
               \/ items'[r] = Append(items[r], PlaceholderOf(CurrentUrl(r))))
           => extracted' = extracted
      ]_vars

\* C10 witness: user u2's request for " a" got the content of "a" from the
\* table, where user u1's request had stored it, without an extractor call.
MemoWitness ==
    /\ user["r1"] = "u1" /\ user["r2"] = "u2"
    /\ urls["r1"] = <<UrlA>> /\ urls["r2"] = <<PadA>>
    /\ calls["r1"].extract >= 1 /\ calls["r2"].extract = 0
    /\ items["r2"] # <<>>
    /\ items["r2"][1].body \in Contents

\* C4: a progress entry appears in the store as {progress 0, done false,
\* error None}; a stream that polls a done entry sends exactly one event, that
\* entry with done = true, then removes the entry and ends, sending nothing
\* more; an entry leaves the store only in a step of a stream that has sent
\* the event of the done entry.
EntryLifecycle ==
    [][/\ \A t \in DOMAIN store' \ DOMAIN store :
            store'[t] = [progress |-> 0, done |-> FALSE, error |-> "None"]
       /\ \A s \in Streams :
            /\ (/\ spc[s] = "poll" /\ stok[s] \in DOMAIN store /\ store[stok[s]].done
                /\ <<spc[s], emits[s], lastEvent[s]>> # <<spc'[s], emits'[s], lastEvent'[s]>>)
               => /\ lastEvent'[s] = store[stok[s]]
                  /\ emits'[s] = emits[s] + 1
                  /\ spc'[s] = "pop"
            /\ (spc[s] = "pop" /\ spc'[s] # "pop")
               => /\ spc'[s] = "end"
                  /\ stok[s] \notin DOMAIN store'
            /\ spc[s] \in {"pop", "end"}
               => /\ spc'[s] \in {"pop", "end"}
                  /\ emits'[s] = emits[s] /\ lastEvent'[s] = lastEvent[s]
                  /\ lastEvent[s].done
       /\ \A t \in DOMAIN store \ DOMAIN store' :
            /\ store[t].done
            /\ \E s \in Streams :
                  /\ stok[s] = t /\ spc[s] = "pop" /\ spc'[s] = "end"
                  /\ lastEvent[s].done
      ]_vars

\* C4 witness: a stream sent events of a running request, then the event of
\* its done entry, removed the entry and ended.
LifecycleWitness ==
    \E s \in Streams, r \in Runs :
        /\ spc[s] = "end" /\ stok[s] = token[r] /\ pc[r] = "done"
        /\ lastEvent[s] = [progress |-> 100, done |-> TRUE, error |-> "None"]
        /\ emits[s] >= 3
        /\ token[r] \notin DOMAIN store

\* C5: the progress of every entry is in 0..100, and while an entry is not
\* done no step lowers its progress (the step that marks it done included).
ProgressMonotone ==
    [][/\ \A t \in DOMAIN store' : store'[t].progress \in 0..100
       /\ \A t \in DOMAIN store \cap DOMAIN store' :
            ~store[t].done => store'[t].progress >= store[t].progress
      ]_vars

\* C5 witness: a video request whose narration was synthesized in several
\* chunks is at its last slide, its progress between the audio and the end.
MonotoneWitness ==
    \E r \in Runs :
        /\ kind[r] = "video" /\ NChunks(summary[r]) = MaxChunks /\ calls[r].tts = MaxChunks
        /\ pc[r] = "concat" /\ nseg[r] = MaxSegs
        /\ token[r] \in DOMAIN store
        /\ store[token[r]].progress = 75

\* The trimmed URLs of a list, and how often a list holds a trimmed URL.
TrimmedSet(l) == {UsableUrls(l)[i] : i \in 1..Len(UsableUrls(l))}

TrimmedCount(l, u) == Cardinality({i \in 1..Len(UsableUrls(l)) : UsableUrls(l)[i] = u})

\* l2 is a permutation of l1 with whitespace added around (or removed from
\* around) its entries.
PaddedPermutation(l1, l2) ==
    /\ Len(l1) = Len(l2)
    /\ \E f \in [1..Len(l1) -> 1..Len(l1)] :
         /\ \A i, j \in 1..Len(l1) : f[i] = f[j] => i = j
         /\ \A i \in 1..Len(l1) : Strip(l2[f[i]]) = Strip(l1[i])

\* C6: a list and a permutation of it with whitespace around its entries have
\* the same cache key.
KeyIgnoresOrderAndPadding ==
    PaddedPermutation(kA, kB) => UrlsCacheKey(kA) = UrlsCacheKey(kB)

\* C6 witness: ["a", "y"] and ["y ", " a"], the two lists of the example.
OrderPaddingWitness ==
    /\ kA = <<UrlA, UrlY>>
    /\ kB = <<<<"y", " ">>, PadA>>
    /\ UrlsCacheKey(kA) = UrlsCacheKey(kB)

FailedUrlGetsPlaceholder ==
    [][\A r \in Runs :
        /\ (pc[r] = "extracting" /\ pc'[r] \notin {"extracting", "saving"})
           => /\ items'[r] = Append(items[r], PlaceholderOf(CurrentUrl(r)))
              /\ pc'[r] \in {"resolve", "summarize"}
        /\ pc'[r] = "summarize" => Len(items'[r]) = Len(UsableUrls(urls'[r]))
      ]_vars

\* C12: after the summarization provider answered with empty or
\* whitespace-only output, the request ends failed with "No summary generated":
\* it makes no speech synthesis call and none of its steps creates or updates
\* a cache record.
EmptySummaryRefused ==
    [][\A r \in Runs :
        answer'[r] = ""
        => /\ calls'[r].tts = 0
           /\ pc'[r] = "failed" /\ err'[r] = "No summary generated"
           /\ <<pc[r], calls[r]>> # <<pc'[r], calls'[r]>> => cacheRows' = cacheRows
      ]_vars

\* Where request r has its audio written.
OutputPath(r) == AudioPath(kind[r], user[r], ckey[r], r)

\* C13: when the provider call of a chunk fails, the synthesis is over: the
\* step writes nothing to the output path and reports no progress, and from
\* then on the request makes no provider call, a file at the output path is
\* never written (it stays as it was, or is gone), and the progress stays
\* where the last chunk that succeeded left it.
ChunkFailureAbortsSynthesis ==
    [][\A r \in Runs :
        /\ (pc[r] = "tts" /\ pc'[r] = "failed")
           => /\ calls'[r].tts = calls[r].tts + 1
              /\ IsFile(files', OutputPath(r)) <=> IsFile(files, OutputPath(r))
              /\ IsFile(files, OutputPath(r)) => files'[OutputPath(r)] = files[OutputPath(r)]
              /\ token[r] \in DOMAIN store
                    => /\ store'[token[r]].progress = store[token[r]].progress
                       /\ store'[token[r]].progress <= TtsProgress(kind[r], 90)
        /\ (pc[r] = "failed" /\ err[r] \in TtsErrors)
           => /\ pc'[r] = "failed" /\ calls'[r] = calls[r]
              /\ IsFile(files', OutputPath(r))
                    => /\ IsFile(files, OutputPath(r))
                       /\ files'[OutputPath(r)] = files[OutputPath(r)]
              /\ token[r] \in DOMAIN store'
                    => store'[token[r]].progress = store[token[r]].progress
      ]_vars

\* C13 witness: the second of MaxChunks chunk calls of a personal briefing
\* failed while an audio file of an earlier briefing is at the output path:
\* two calls were made, the file still speaks the earlier text.
ChunkFailureWitness ==
    \E r \in Runs :
        /\ kind[r] = "personal" /\ pc[r] = "failed" /\ err[r] \in TtsErrors
        /\ NChunks(summary[r]) = MaxChunks /\ calls[r].tts = 2
        /\ IsFile(files, OutputPath(r)) /\ files[OutputPath(r)] = "T1"
        /\ token[r] \in DOMAIN store /\ store[token[r]].progress = TtsProgress("personal", 30)

\* C14: a failed image generation never ends the video: the step that makes
\* the frame of a segment adds exactly one frame, the generated image or,
\* when the generation failed, the gradient frame, and goes on with the next
\* segment; when the clips are built, and when the video is written, there is
\* one frame per segment.
SlideFailureNeverAborts ==
    [][\A r \in Runs :
        /\ (pc[r] = "slide" /\ video'[r].frames # video[r].frames)
           => /\ \E generated \in BOOLEAN :
                    video'[r].frames =
                        Append(video[r].frames,
                               [generated |-> generated,
                                frame |-> IF generated THEN "image" ELSE "gradient"])
              /\ idx[r] \in video'[r].onDisk
              /\ pc'[r] \in {"slide", "concat"}
        /\ pc'[r] \in {"concat", "mux"} => Len(video'[r].frames) = nseg'[r]
        /\ (kind'[r] = "video" /\ pc'[r] \in {"finish", "done"})
           => video'[r].mp4 /\ Len(video'[r].frames) = nseg'[r]
      ]_vars

\* C14 witness: a video of MaxSegs segments was written although the image
\* generation failed for every segment.
AllImagesFailedWitness ==
    \E r \in Runs :
        /\ kind[r] = "video" /\ pc[r] = "done" /\ video[r].mp4
        /\ nseg[r] = MaxSegs /\ Len(video[r].frames) = MaxSegs
        /\ \A i \in 1..MaxSegs :
              ~video[r].frames[i].generated /\ video[r].frames[i].frame = "gradient"

\* C15: when build_briefing_video has returned or raised, its temporary
\* directory and the audio and frame files in it are gone.
TmpRemovedOnExit ==
    \A r \in Runs :
        (kind[r] = "video" /\ pc[r] \in {"failed", "finish", "done"})
        => /\ ~video[r].dir
           /\ video[r].onDisk = {}
           /\ ~IsFile(files, OutputPath(r))

\* C15 witness: the video failed while it was written, after the audio and
\* the frames of MaxSegs segments had been put into the temporary directory.
TmpRemovedWitness ==
    \E r \in Runs :
        /\ kind[r] = "video" /\ pc[r] = "failed" /\ err[r] = "video assembly failed"
        /\ calls[r].tts >= 1 /\ Len(video[r].frames) = MaxSegs
        /\ ~video[r].dir /\ video[r].onDisk = {}

\* C16: a stream sends an event only when the progress differs from the
\* progress of the last event it sent, or when the entry is done; a poll that
\* finds no change, or no entry, sends nothing.
StreamEmitsOnChange ==
    [][\A s \in Streams :
        emits'[s] # emits[s]
        => \/ lastEvent'[s].done
           \/ lastEvent'[s].progress # lastEvent[s].progress
      ]_vars

\* No character of the text is whitespace.
Unbroken(t) == \A i \in 1..Len(t) : ~IsSpace(t[i])

\* C17: every chunk is non-empty and at most max_chars long; a text of at
\* most max_chars characters that is not blank gives one chunk, an unbroken
\* text of max_chars + 1 characters gives two, a blank text gives none.
ChunksFit ==
    LET chunks == SplitIntoChunks(cText, cMax) IN
    /\ \A i \in 1..Len(chunks) : chunks[i] # <<>> /\ Len(chunks[i]) <= cMax
    /\ (Strip(cText) # <<>> /\ Len(cText) <= cMax) => Len(chunks) = 1
    /\ (Unbroken(cText) /\ Len(cText) = cMax + 1) => Len(chunks) = 2
    /\ Strip(cText) = <<>> => chunks = <<>>

\* C17 witness: "aa. aa" with max_chars 3 is broken after ". ".
ChunksFitWitness ==
    /\ cMax = 3
    /\ cText = <<"a", "a", ".", " ", "a", "a">>
    /\ SplitIntoChunks(cText, cMax) = << <<"a", "a", ".">>, <<"a", "a">> >>

\* The chunks, in order, with a string of whitespace between one and the
\* next, make up the text t.
RECURSIVE Rejoins(_, _)
Rejoins(chunks, t) ==
    IF chunks = <<>> THEN t = <<>>
    ELSE /\ Len(Head(chunks)) <= Len(t)
         /\ SubSeq(t, 1, Len(Head(chunks))) = Head(chunks)
         /\ LET after == SubSeq(t, Len(Head(chunks)) + 1, Len(t)) IN
              IF Tail(chunks) = <<>> THEN after = <<>>
              ELSE \E k \in 0..Len(after) :
                      /\ \A j \in 1..k : IsSpace(after[j])
                      /\ Rejoins(Tail(chunks), SubSeq(after, k + 1, Len(after)))

\* C18: the chunks in order, joined with whitespace (or nothing) at the
\* boundaries, are the trimmed text.
ChunksRejoin == Rejoins(SplitIntoChunks(cText, cMax), Strip(cText))

\* C18 witness: "aa\n\naa" with max_chars 3 is split at the paragraph break,
\* which is in neither chunk.
ChunksRejoinWitness ==
    /\ cMax = 3
    /\ cText = <<"a", "a", "\n", "\n", "a", "a">>
    /\ SplitIntoChunks(cText, cMax) = << <<"a", "a">>, <<"a", "a">> >>

\* C19: for a positive total duration and a segment list that is not empty
\* (segments of length 0 included), every slide duration is at least 0 and
\* the slide durations add up to exactly the total duration.
AllocationSumsToTotal ==
    (sSegs # <<>> /\ sDur.num > 0)
    => LET ds == SegmentDurations(sSegs, sDur) IN
       /\ Len(ds) = Len(sSegs)
       /\ \A i \in 1..Len(ds) : ds[i].num >= 0 /\ ds[i].den > 0
       /\ RatEq(RatSum(ds), sDur)

\* C19 witness: three segments of 0, 1 and 4 characters and 20.5 seconds: the
\* raw durations 0 and 4.1 are raised to 8, next to 16.4, and the slides get
\* 410/81, 410/81 and 1681/162 seconds.
AllocationWitness ==
    /\ sSegs = << <<>>, <<"a">>, <<"a", ".", " ", "a">> >>
    /\ sDur = Rat(41, 2)
    /\ SegmentDurations(sSegs, sDur) = <<Rat(410, 81), Rat(410, 81), Rat(1681, 162)>>

\* floor(total_duration / MIN_SLIDE_DURATION), at least 1
SlideBound(total) == Max(1, total.num \div (total.den * MinSlideDuration))

\* C20 (as stated): for every segment list that is not empty and every total
\* duration, the merged list has at most max(1, floor(D / 8)) segments, and a
\* list within that bound is returned as it is.
MergeBoundsSlides ==
    sSegs # <<>>
    => /\ Len(MergeSegments(sSegs, sDur)) <= SlideBound(sDur)
       /\ Len(sSegs) <= SlideBound(sDur) => MergeSegments(sSegs, sDur) = sSegs

\* C20 (amended): the bound holds for every positive total duration; for a
\* total duration of 0 or less the list is returned as it is, whatever its
\* length.
MergeBoundsSlidesPositive ==
    sSegs # <<>>
    => /\ sDur.num > 0 => Len(MergeSegments(sSegs, sDur)) <= SlideBound(sDur)
       /\ Len(sSegs) <= SlideBound(sDur) => MergeSegments(sSegs, sDur) = sSegs
       /\ sDur.num <= 0 => MergeSegments(sSegs, sDur) = sSegs

\* C20 witness: three segments and 16 seconds allow two slides: the first two
\* segments are merged, the third stays.
MergeWitness ==
    /\ sSegs = << <<"a">>, <<>>, <<"a", ".", " ", "a">> >>
    /\ sDur = Rat(32, 2)
    /\ MergeSegments(sSegs, sDur) = << <<"a", " ">>, <<"a", ".", " ", "a">> >>

\* build_briefing_video, lines 258-272: the segments are merged to fit the
\* audio duration, then the durations are allocated to the merged segments.
SlideDurations(segments, total) == SegmentDurations(MergeSegments(segments, total), total)

\* C21: for every segment list that is not empty and every total duration of
\* at least MIN_SLIDE_DURATION seconds, every slide duration allocated after
\* the merge is at least MIN_SLIDE_DURATION seconds.
NoSlideBelowMinimum ==
    (sSegs # <<>> /\ ~RatLess(sDur, RatOfInt(MinSlideDuration)))
    => LET ds == SlideDurations(sSegs, sDur) IN
       \A i \in 1..Len(ds) : ~RatLess(ds[i], RatOfInt(MinSlideDuration))

\* C22: under every interleaving of the worker threads there is at most one
\* extracted_summaries row per URL, and no call whose extraction succeeded
\* fails at its write: the later write updates the row that is there.
ConcurrentExtractionsAllReturn ==
    /\ \A row1, row2 \in extracted : row1.url = row2.url => row1 = row2
    /\ \A r \in Runs : err[r] # "IntegrityError"

\* The runs that are under way: admitted, and not yet ended.
Running(r) == pc[r] \notin Terminal \cup {"idle"}

\* C23: two runs that are under way at the same time never have the same
\* audio output path, also when they are for the same user and the same
\* cache key.
RunsWritePrivatePaths ==
    \A r1, r2 \in Runs :
        (r1 # r2 /\ Running(r1) /\ Running(r2)) => OutputPath(r1) # OutputPath(r2)

\* A step of request r: every action of a request moves its position or its
\* chunk or slide counter, and no action of a stream does.
StepOf(r) == pc'[r] # pc[r] \/ idx'[r] # idx[r]

\* C24: a step of a request with token T leaves the entry of every other
\* token as it was, and makes no new entry unless it is the step that
\* declares T; a progress callback whose entry is gone makes none.
RunTouchesOwnEntryOnly ==
    [][\A r \in Runs :
         StepOf(r) =>
            /\ \A t \in DOMAIN store \ {token'[r]} : t \in DOMAIN store' /\ store'[t] = store[t]
            /\ \A t \in DOMAIN store' \ DOMAIN store : t = token'[r] /\ pc[r] = "idle"]_vars

\* C24 witness: the second request is among its chunks and has reported one
\* while the entry of its token is gone: the first request had the same
\* token and marked it done, and a stream removed it.
CallbackAfterPopWitness ==
    /\ token["r1"] = "t1" /\ token["r2"] = "t1"
    /\ pc["r1"] = "done" /\ spc["s1"] = "end"
    /\ pc["r2"] = "tts" /\ idx["r2"] = 2
    /\ "t1" \notin DOMAIN store

RECURSIVE Flatten(_)
Flatten(l) == IF l = <<>> THEN <<>> ELSE Head(l) \o Flatten(Tail(l))

\* C25: for a text of n >= 2 chunks, the provider is called once per chunk in
\* chunk order, a call starting only when the one before has returned; the
\* progress reported after the i-th chunk is min(90, 90 * i / n rounded
\* down); the file written holds the returned audio in chunk order, after n
\* calls, and 100 is reported only once the file is written.
SynthesisSequentialInOrder ==
    LET n == Len(SynthChunks) IN
    (n >= 2 /\ synth.pc # "idle")
    => /\ Len(synth.sent) <= n
       /\ \A k \in 1..Len(synth.sent) : synth.sent[k] = SynthChunks[k]
       /\ Len(synth.sent) - Len(synth.got) = (IF synth.pc \in {"calling", "raised"} THEN 1 ELSE 0)
       /\ synth.reports =
            <<0>> \o [k \in 1..Len(synth.got) |-> IF (90 * k) \div n < 90 THEN (90 * k) \div n ELSE 90]
                  \o (IF synth.pc = "done" THEN <<100>> ELSE <<>>)
       /\ synth.pc = "done" <=> synth.file # "None"
       /\ synth.pc = "done" => Len(synth.got) = n /\ synth.file = Flatten(synth.got)

\* C25 witness: a text of three chunks whose calls returned different audio,
\* written in the order of the chunks.
SynthesisWitness ==
    /\ cText = <<"a", " ", "a", "a">> /\ cMax = 1
    /\ synth.pc = "done"
    /\ synth.sent = << <<"a">>, <<"a">>, <<"a">> >>
    /\ synth.got = << <<"p">>, <<"q", "q">>, <<"p">> >>
    /\ synth.file = <<"p", "q", "q", "p">>
    /\ synth.reports = <<0, 30, 60, 90, 100>>

\* segs are groups of consecutive sentences of sents, each group joined with
\* single spaces, in order; a group of more than one sentence has at most
\* target characters.
RECURSIVE GroupsOf(_, _, _)
GroupsOf(segs, sents, target) ==
    IF segs = <<>> THEN sents = <<>>
    ELSE \E k \in 1..Len(sents) :
            /\ Head(segs) = JoinSpace(SubSeq(sents, 1, k))
            /\ k = 1 \/ Len(Head(segs)) <= target
            /\ GroupsOf(Tail(segs), SubSeq(sents, k + 1, Len(sents)), target)

\* C26: for every text that has a character other than whitespace, the
\* segments are not empty, they are the sentences of the text, whole and in
\* order (every segment but the last ends with the end of a sentence, and
\* the segments spell the text, whitespace aside), each segment has at most
\* the target number of characters or is one sentence, and a text with no
\* ".", "!" or "?" comes back as one segment.
SegmentsKeepSentences ==
    Strip(cText) # <<>>
    => LET segs == SplitIntoSlides(cText, cMax) IN
       /\ segs # <<>>
       /\ \A k \in 1..Len(segs) : segs[k] # <<>>
       /\ GroupsOf(segs, Sentences(Strip(cText)), cMax)
       /\ \A k \in 1..(Len(segs) - 1) : segs[k][Len(segs[k])] \in SentenceEnd
       /\ SelectSeq(Flatten(segs), LAMBDA c : ~IsSpace(c)) = SelectSeq(cText, LAMBDA c : ~IsSpace(c))
       /\ (\A j \in 1..Len(cText) : cText[j] \notin SentenceEnd) => segs = <<Strip(cText)>>

\* C26 witness: three sentences and a target of four characters: the first
\* two fit one segment, the third starts the next.
SegmentsWitness ==
    /\ cText = <<"a", ".", " ", ".", "\n", "a">> /\ cMax = 4
    /\ SplitIntoSlides(cText, cMax) = << <<"a", ".", " ", ".">>, <<"a">> >>

\* C27: once a briefing request has ended in whatever way after its checks
\* (cache hit, success, handled failure, exception no handler catches), a
\* stream that polls its token gets to the event with done = true and ends.
EndedRequestEndsStream ==
    (pc[ProgRun] \in Terminal \ {"rejected"} /\ spc["s1"] = "poll")
        ~> (spc["s1"] \in {"pop", "end"})

\* C28: when a stream has sent the event done = true with progress 100 and no
\* error for a briefing request, the request has committed its cache record:
\* the record of its user and cache key exists with its narration and its
\* audio file, so that the same request made now is a cache hit.
DoneSeenAfterCommit ==
    (lastEvent["s1"].done /\ lastEvent["s1"].progress = 100 /\ lastEvent["s1"].error = "None")
    => /\ pc[ProgRun] = "done"
       /\ CacheHit(cacheRows, files, user[ProgRun], ckey[ProgRun])
       /\ First(CachedRows(cacheRows, user[ProgRun], ckey[ProgRun])).transcript = summary[ProgRun]
       /\ First(CachedRows(cacheRows, user[ProgRun], ckey[ProgRun])).path = OutputPath(ProgRun)

\* C28 witness: the stream has sent the last event of a finished briefing of a
\* URL list and has ended.
DoneSeenWitness ==
    /\ kind[ProgRun] = "urls" /\ pc[ProgRun] = "done"
    /\ lastEvent["s1"] = [progress |-> 100, done |-> TRUE, error |-> "None"]
    /\ spc["s1"] = "end"

\* C29: a step that changes the set of sources a user follows leaves no
\* "personal" cache record of that user, and leaves every other cache record
\* as it was.
SourceChangeInvalidates ==
    [][\A u \in Users :
         sources'[u] # sources[u]
         => /\ CachedRows(cacheRows', u, PersonalKey) = {}
            /\ cacheRows' \ CachedRows(cacheRows', u, PersonalKey)
                 = cacheRows \ CachedRows(cacheRows, u, PersonalKey)]_vars

\* C30: in every video that was written, the text its slides were made from
\* is the text its audio track speaks, whatever the personal record of the
\* user was when the video was requested.
SlidesShowNarration ==
    \A r \in Runs :
        (kind[r] = "video" /\ video[r].mp4) => video[r].slideText = video[r].narrated

====
